---- MODULE Spec2Model ----
(***************************************************************************)
(* A model of the huey dispatcher (src/huey/api.py): the Huey class with   *)
(* its enqueue / execute / retry / chain / revoke paths, the Task value,   *)
(* the Result handle and the TaskLock, over an abstract storage broker.    *)
(*                                                                         *)
(* One call of a public operation is one action.  In immediate mode a call *)
(* of enqueue runs execute, which may call enqueue again (continuations,   *)
(* retries): the operators below follow that recursion and yield the set   *)
(* of states the call can end in, one per choice of the task bodies' and   *)
(* hooks' outcomes.                                                        *)
(***************************************************************************)
EXTENDS Integers, Sequences, FiniteSets, TLC

VARIABLES
    results,        \* Huey.results
    store_none,     \* Huey.store_none
    immediate,      \* Huey._immediate
    pre_execute,    \* Huey._pre_execute: the registered hooks' names, in order
    post_execute,   \* Huey._post_execute
    queue,          \* storage: the FIFO of serialized tasks
    schedule,       \* storage: <<eta, data>> entries sorted by eta
    store,          \* storage: the key/value result store
    now,            \* the wall clock read by Huey._get_timestamp
    tmpl,           \* the task the producer builds and enqueues
    enq,            \* how many times the producer has enqueued tmpl
    runs,           \* per task id, how many times its body has been invoked
    dropped,        \* per task id, how many copies were skipped (revoked, cancelled, interrupted)
    revokes,        \* how many revoke / revoke_all calls were made
    trace,          \* what the last operation did, in order: signals emitted, bodies run, records put
    op,             \* the last operation: its name and the task it was given
    ret,            \* what the last operation returned or raised
    held,           \* TaskLock users: per worker, the lock names whose protected region it is in
    chk,            \* per worker, where it is in a call of is_revoked and what it has read
    poll,           \* the caller blocked in Result.get(blocking=True): its locals
    cron,           \* the predicate crontab() built last: its arguments and cron_settings
    every           \* the predicate every_between() built last, with its memoized _next

vars == <<results, store_none, immediate, pre_execute, post_execute, queue,
          schedule, store, now, tmpl, enq, runs, dropped, revokes, trace, op,
          ret, held, chk, poll, cron, every>>

(***************************************************************************)
(* Bounds of the model.                                                    *)
(***************************************************************************)
MaxRetries == 2
MaxEnq == 1
MaxRuns == 3
MaxTime == 1
MaxRevokes == 1
MaxHooks == 1
MaxPieces == 2
MaxStep == 2
MaxDay == 1
MaxQueries == 5

(***************************************************************************)
(* Python values.  None for an optional field is the empty option <<>>,    *)
(* a present value x is <<x>>.  A value a task body returns, or that is    *)
(* kept in the result store, is tagged with its Python type: extend_data   *)
(* and Result.get branch on it.                                            *)
(***************************************************************************)
None == <<>>
Some(x) == <<x>>

PyNone == [t |-> "none", a |-> <<>>, d |-> {}]
Atom(s) == [t |-> "atom", a |-> <<s>>, d |-> {}]
Tuple(s) == [t |-> "tuple", a |-> s, d |-> {}]
Dict(kv) == [t |-> "dict", a |-> <<>>, d |-> kv]
Exc(cls) == [t |-> "exc", a |-> <<cls>>, d |-> {}]

\* utils.Error: the record _execute stores for a failed run.
Error(metadata) == [t |-> "Error", error |-> metadata.error, retries |-> metadata.retries]

\* The values a task body of the model may return.
Returns == {PyNone, Atom("v1"), Tuple(<<>>), Tuple(<<"v1", "v2">>), Dict({<<"k", "v1">>, <<"j", "v2">>})}

\* Task ids and class names of the model.
TaskIds == {"a", "b", "e"}
TaskClasses == {"flaky", "boom", "cron", "echo", "work"}
PeriodicClasses == {"cron"}
LockNames == {"L1", "L2"}
Workers == {"w1", "w2", "w3"}

(***************************************************************************)
(* Serializer (huey.serializer) and Registry (huey.registry).  A stored    *)
(* byte string is a pickle of the value; a task travels as a Message       *)
(* tuple whose continuations are messages themselves.                      *)
(***************************************************************************)
serialize(data) == [pickle |-> data]
deserialize(bytes) == bytes.pickle

\* storage's EmptyData sentinel: no byte string under the key.
EmptyData == <<>>

\* Task.__init__
TaskInit(name, args, kwargs, id, eta, retries, retry_delay, on_complete, on_error) ==
    [name |-> name, args |-> args, kwargs |-> kwargs, id |-> id, eta |-> eta,
     retries |-> retries, retry_delay |-> retry_delay,
     on_complete |-> on_complete, on_error |-> on_error]

\* Task.revoke_id
revoke_id(task) == "r:" \o task.id

\* Huey._task_key(task_class, 'rt')
task_key(name) == "rt:" \o name

\* isinstance(task, PeriodicTask)
IsPeriodic(task) == task.name \in PeriodicClasses

RECURSIVE create_message(_)
create_message(task) ==
    <<task.id, task.name, task.eta, task.retries, task.retry_delay,
      task.args, task.kwargs,
      IF task.on_complete = None THEN None
      ELSE Some(create_message(task.on_complete[1])),
      IF task.on_error = None THEN None
      ELSE Some(create_message(task.on_error[1]))>>

RECURSIVE create_task(_)
create_task(message) ==
    TaskInit(message[2], message[6], message[7], message[1], message[3],
             message[4], message[5],
             IF message[8] = None THEN None ELSE Some(create_task(message[8][1])),
             IF message[9] = None THEN None ELSE Some(create_task(message[9][1])))

\* Huey.serialize_task / Huey.deserialize_task
serialize_task(task) == serialize(create_message(task))
deserialize_task(data) == create_task(deserialize(data))

(***************************************************************************)
(* The storage broker.  h is the dispatcher's mutable state during one     *)
(* call: the broker's queue, schedule and key/value store, with the        *)
(* observation log of the call and the run counters.                       *)
(***************************************************************************)
storage_enqueue(h, data) == [h EXCEPT !.queue = Append(@, data)]

\* The schedule is kept sorted by eta; an entry goes after those not later.
add_to_schedule(h, data, eta) ==
    LET s == h.schedule
        k == Cardinality({i \in 1..Len(s) : s[i][1] <= eta})
    IN [h EXCEPT !.schedule =
            SubSeq(s, 1, k) \o <<(<<eta, data>>)>> \o SubSeq(s, k + 1, Len(s))]

\* The entries due at ts, in eta order; they are removed from the schedule.
DueCount(s, ts) == Cardinality({i \in 1..Len(s) : s[i][1] <= ts})
storage_read_schedule(h, ts) ==
    LET k == DueCount(h.schedule, ts)
    IN [h |-> [h EXCEPT !.schedule = SubSeq(@, k + 1, Len(@))],
        due |-> [i \in 1..k |-> h.schedule[i][2]]]

put_data(h, key, bytes) == [h EXCEPT !.store[key] = Some(bytes)]
peek_data(h, key) == h.store[key]
pop_data(h, key) == [h |-> [h EXCEPT !.store[key] = EmptyData], data |-> h.store[key]]
\* put_if_empty is atomic in the broker: the test and the write are one step.
storage_put_if_empty(h, key, bytes) ==
    IF h.store[key] = EmptyData
    THEN [h |-> [h EXCEPT !.store[key] = Some(bytes)], ok |-> TRUE]
    ELSE [h |-> h, ok |-> FALSE]

\* Huey.put
put(h, key, data) == put_data(h, key, serialize(data))

\* Huey.put_if_empty
put_if_empty(h, key, data) == storage_put_if_empty(h, key, serialize(data))

\* Huey.get_raw: the stored bytes (an option), and the store after the read.
get_raw(h, key, peek) ==
    IF peek THEN [h |-> h, data |-> peek_data(h, key)]
    ELSE pop_data(h, key)

\* Huey.get: the deserialized value as an option, None when nothing is stored.
get(h, key, peek) ==
    LET r == get_raw(h, key, peek)
    IN [h |-> r.h,
        data |-> IF r.data # EmptyData THEN Some(deserialize(r.data[1])) ELSE None]

(***************************************************************************)
(* Task: extend_data, then, error.                                         *)
(***************************************************************************)
\* extend_data with kwargs.update(data): the returned mapping overwrites.
extend_data_update(task, data) ==
    IF data.t = "none" \/ (data.t = "tuple" /\ data.a = <<>>) THEN task
    ELSE IF data.t = "tuple" THEN [task EXCEPT !.args = @ \o data.a]
    ELSE IF data.t = "dict"
         THEN [task EXCEPT !.kwargs =
                   {kv \in @ : kv[1] \notin {p[1] : p \in data.d}} \cup data.d]
    ELSE [task EXCEPT !.args = Append(@, data.a[1])]

extend_data(task, data) ==
    IF data.t = "none" \/ (data.t = "tuple" /\ data.a = <<>>) THEN task
    ELSE IF data.t = "tuple" THEN [task EXCEPT !.args = @ \o data.a]
    ELSE IF data.t = "dict"
         THEN [task EXCEPT !.kwargs =
                   @ \cup {kv \in data.d : kv[1] \notin {p[1] : p \in @}}]
    ELSE [task EXCEPT !.args = Append(@, data.a[1])]

RECURSIVE then(_, _)
then(self, task) ==
    IF self.on_complete # None
    THEN [self EXCEPT !.on_complete = Some(then(@[1], task))]
    ELSE [self EXCEPT !.on_complete = Some(task)]

RECURSIVE error(_, _)
error(self, task) ==
    IF self.on_error # None
    THEN [self EXCEPT !.on_error = Some(error(@[1], task))]
    ELSE [self EXCEPT !.on_error = Some(task)]

(***************************************************************************)
(* The observation log of a call.  An entry names what happened (a signal  *)
(* sent by _emit, or a call the dispatcher made) and the task as it was    *)
(* at that moment.                                                         *)
(***************************************************************************)
Ev(e, task, n, k, v) ==
    [e |-> e, id |-> task.id, args |-> task.args, kwargs |-> task.kwargs,
     eta |-> task.eta, retries |-> task.retries, n |-> n, k |-> k, v |-> v]

note(h, e, task, n) == [h EXCEPT !.trace = Append(@, Ev(e, task, n, "", PyNone))]

\* An entry that also names a value: how a body ended, what was stored.
noteV(h, e, task, k, v) == [h EXCEPT !.trace = Append(@, Ev(e, task, 0, k, v))]

\* Huey._emit: receivers' exceptions are logged and swallowed.
emit(h, signal, task) == note(h, signal, task, 0)

\* A copy of the task leaves the system without its body finishing.
drop(h, task) == [h EXCEPT !.dropped[task.id] = @ + 1]

(***************************************************************************)
(* Revocation.                                                             *)
(***************************************************************************)
\* Huey.revoke / Huey.revoke_all: the record is the pair (revoke_until, revoke_once).
revoke(h, task, revoke_until, revoke_once) ==
    put(h, revoke_id(task), <<revoke_until, revoke_once>>)

revoke_all(h, name, revoke_until, revoke_once) ==
    put(h, task_key(name), <<revoke_until, revoke_once>>)

\* Huey.restore / Huey.restore_all: pop the record; was there one?
restore(h, task) ==
    LET r == get_raw(h, revoke_id(task), FALSE)
    IN [h |-> r.h, was |-> r.data # EmptyData]

restore_all(h, name) ==
    LET r == get_raw(h, task_key(name), FALSE)
    IN [h |-> r.h, was |-> r.data # EmptyData]

\* _check_revoked for which a revoke_until never expires.
_check_revoked_no_expiry(h, key, timestamp, peek) ==
    LET res == get(h, key, TRUE).data
    IN IF res = None THEN <<FALSE, FALSE>>
       ELSE IF res[1][2] THEN <<TRUE, ~peek>>
       ELSE <<TRUE, FALSE>>

\* _check_revoked that never asks for a one-shot record to be deleted.
_check_revoked_keep(h, key, timestamp, peek) ==
    LET res == get(h, key, TRUE).data
    IN IF res = None THEN <<FALSE, FALSE>>
       ELSE IF res[1][2] THEN <<TRUE, FALSE>>
       ELSE IF res[1][1] # None /\ res[1][1][1] <= timestamp THEN <<FALSE, ~peek>>
       ELSE <<TRUE, FALSE>>

\* _check_revoked that asks for the deletion whatever peek says.
_check_revoked_no_peek(h, key, timestamp, peek) ==
    LET res == get(h, key, TRUE).data
    IN IF res = None THEN <<FALSE, FALSE>>
       ELSE IF res[1][2] THEN <<TRUE, TRUE>>
       ELSE IF res[1][1] # None /\ res[1][1][1] <= timestamp THEN <<FALSE, TRUE>>
       ELSE <<TRUE, FALSE>>

\* Huey._check_revoked: <<is the task revoked, should the record be deleted>>.
_check_revoked(h, key, timestamp, peek) ==
    LET res == get(h, key, TRUE).data
    IN IF res = None THEN <<FALSE, FALSE>>
       ELSE LET revoke_until == res[1][1]
                revoke_once == res[1][2]
            IN IF revoke_once THEN <<TRUE, ~peek>>
               ELSE IF revoke_until # None /\ revoke_until[1] <= timestamp
                    THEN <<FALSE, ~peek>>
               ELSE <<TRUE, FALSE>>

\* Huey.is_revoked given a task class.
is_revoked_class(h, name, timestamp, peek) ==
    LET c == _check_revoked(h, task_key(name), timestamp, peek)
        h1 == IF c[2] THEN restore_all(h, name).h ELSE h
    IN [h |-> h1, revoked |-> c[1]]

\* is_revoked that only ever peeks: no record is deleted.
is_revoked_peek(h, task, timestamp, peek) ==
    LET c == _check_revoked(h, revoke_id(task), timestamp, TRUE)
    IN IF ~c[1] THEN is_revoked_class(h, task.name, timestamp, TRUE)
       ELSE [h |-> h, revoked |-> TRUE]

\* is_revoked that consults the class record whatever the task's own says.
is_revoked_both(h, task, timestamp, peek) ==
    LET c == _check_revoked(h, revoke_id(task), timestamp, peek)
        h1 == IF c[2] THEN restore(h, task).h ELSE h
        r == is_revoked_class(h1, task.name, timestamp, peek)
    IN [h |-> r.h, revoked |-> c[1] \/ r.revoked]

\* Huey.is_revoked given a task instance.
is_revoked(h, task, timestamp, peek) ==
    LET c == _check_revoked(h, revoke_id(task), timestamp, peek)
        h1 == IF c[2] THEN restore(h, task).h ELSE h
    IN IF ~c[1] THEN is_revoked_class(h1, task.name, timestamp, peek)
       ELSE [h |-> h1, revoked |-> TRUE]

(***************************************************************************)
(* Scheduling.                                                             *)
(***************************************************************************)
\* ready_to_run that ignores the eta.
ready_to_run_always(task, timestamp) == TRUE

\* Huey.ready_to_run
ready_to_run(task, timestamp) == task.eta = None \/ task.eta[1] <= timestamp

\* Huey.add_schedule: a task without eta is keyed by the epoch.
add_schedule(h, task) ==
    LET data == serialize_task(task)
        eta == IF task.eta # None THEN task.eta[1] ELSE 0
    IN emit(add_to_schedule(h, data, eta), "SCHEDULED", task)

(***************************************************************************)
(* Task bodies and hooks are user code: the model lets each call end in    *)
(* any of the ways its class allows.                                       *)
(***************************************************************************)
Return(v) == [k |-> "return", v |-> v]
Raise(cls) == [k |-> cls, v |-> PyNone]

\* TaskWrapper.create_task's execute: func(*args, **kwargs), by class.
\*   boom raises on every run, echo returns its first argument, cron (a
\*   periodic task) and work return a value or None or raise, flaky may
\*   end in any way.
BodyOutcomes(task) ==
    CASE task.name = "boom" -> {Raise("Exception")}
      [] task.name = "echo" ->
            {Return(IF task.args = <<>> THEN PyNone ELSE Atom(task.args[1]))}
      [] task.name \in {"cron", "work"} ->
            {Return(PyNone), Return(Atom("v1")), Raise("Exception")}
      [] OTHER ->
            {Return(v) : v \in Returns}
            \cup {Raise(c) : c \in {"Exception", "TaskLockedException",
                                    "RetryTask", "KeyboardInterrupt"}}

\* What a pre-execute callback may do: return, raise CancelExecution, or
\* raise something else (logged and swallowed).
HookOutcomes == {"ok", "cancel", "error"}

\* The i-th pre-execute hook was called; the log tells a CancelExecution
\* from the other two outcomes.
called(h, task, i, o) ==
    [h EXCEPT !.trace = Append(@, Ev("pre_execute", task, i,
                                     IF o = "cancel" THEN "CancelExecution" ELSE "",
                                     PyNone))]

\* _run_pre_execute that calls every hook and only then reports a cancel.
RECURSIVE run_pre_execute_all(_, _, _)
run_pre_execute_all(h, task, i) ==
    IF i > Len(pre_execute) THEN {[h |-> h, cancelled |-> FALSE]}
    ELSE UNION { { [h |-> r.h, cancelled |-> r.cancelled \/ o = "cancel"] :
                      r \in run_pre_execute_all(called(h, task, i, o), task, i + 1) } :
                 o \in HookOutcomes }

\* Huey._run_pre_execute, from the i-th hook on: the hooks run in order
\* until one raises CancelExecution.
RECURSIVE run_pre_execute_from(_, _, _)
run_pre_execute_from(h, task, i) ==
    IF i > Len(pre_execute) THEN {[h |-> h, cancelled |-> FALSE]}
    ELSE UNION { IF o = "cancel" THEN {[h |-> called(h, task, i, o), cancelled |-> TRUE]}
                 ELSE run_pre_execute_from(called(h, task, i, o), task, i + 1) :
                 o \in HookOutcomes }

_run_pre_execute(h, task) == run_pre_execute_from(h, task, 1)

\* Huey._run_post_execute: every hook runs, exceptions are swallowed.
RECURSIVE run_post_execute_from(_, _, _)
run_post_execute_from(h, task, i) ==
    IF i > Len(post_execute) THEN h
    ELSE run_post_execute_from(note(h, "post_execute", task, i), task, i + 1)

_run_post_execute(h, task) == run_post_execute_from(h, task, 1)

(***************************************************************************)
(* What a call returns.                                                    *)
(***************************************************************************)
RetNone == [k |-> "None"]
RetValue(v) == [k |-> "value", v |-> v]
RetResult(id) == [k |-> "Result", ids |-> <<id>>]
RetResultGroup(ids) == [k |-> "ResultGroup", ids |-> ids]

R(h, task, r) == [h |-> h, task |-> task, ret |-> r]

\* The ids along the on_complete chain, as enqueue walks it.
RECURSIVE ChainIds(_)
ChainIds(task) ==
    <<task.id>> \o (IF task.on_complete = None THEN <<>>
                    ELSE ChainIds(task.on_complete[1]))

\* Huey.enqueue's return value: nothing, a Result or a ResultGroup.
enqueue_result(task) ==
    IF ~results THEN RetNone
    ELSE IF task.on_complete # None THEN RetResultGroup(ChainIds(task))
    ELSE RetResult(task.id)

(***************************************************************************)
(* Huey._execute, in its steps.                                            *)
(***************************************************************************)
\* The except clauses with RetryTask handled like any recorded exception
\* that sends no signal.
caught_retry_plain(h, task, o) ==
    CASE o.k = "TaskLockedException" ->
            [h |-> emit(h, "LOCKED", task), task |-> task,
             exception |-> Some(Exc(o.k)), task_value |-> PyNone]
      [] o.k = "RetryTask" ->
            [h |-> h, task |-> task,
             exception |-> Some(Exc(o.k)), task_value |-> PyNone]
      [] o.k = "Exception" ->
            [h |-> emit(h, "ERROR", task), task |-> task,
             exception |-> Some(Exc(o.k)), task_value |-> PyNone]
      [] OTHER ->
            [h |-> emit(h, "COMPLETE", task), task |-> task,
             exception |-> None, task_value |-> o.v]

\* The except clauses around task.execute(): the exception kept (if any),
\* the value, the task (RetryTask may reset its retries), the signal sent.
caught(h, task, o) ==
    CASE o.k = "TaskLockedException" ->
            [h |-> emit(h, "LOCKED", task), task |-> task,
             exception |-> Some(Exc(o.k)), task_value |-> PyNone]
      [] o.k = "RetryTask" ->
            [h |-> h,
             task |-> IF task.retries = 0 THEN [task EXCEPT !.retries = 1] ELSE task,
             exception |-> Some(Exc(o.k)), task_value |-> PyNone]
      [] o.k = "Exception" ->
            [h |-> emit(h, "ERROR", task), task |-> task,
             exception |-> Some(Exc(o.k)), task_value |-> PyNone]
      [] OTHER ->
            [h |-> emit(h, "COMPLETE", task), task |-> task,
             exception |-> None, task_value |-> o.v]

\* The write to the result store that does not ask what kind of task ran.
store_result_any(h, task, exception, task_value) ==
    IF results
    THEN IF exception # None
         THEN LET err == Error([error |-> exception[1].a[1],
                                 retries |-> task.retries])
              IN noteV(put(h, task.id, err), "put", task, "Error", err)
         ELSE IF task_value # PyNone \/ store_none
              THEN noteV(put(h, task.id, task_value), "put", task, "value", task_value)
              ELSE h
    ELSE h

\* The write to the result store after the body.
store_result(h, task, exception, task_value) ==
    IF results /\ ~IsPeriodic(task)
    THEN IF exception # None
         THEN LET err == Error([error |-> exception[1].a[1],
                                 retries |-> task.retries])
              IN noteV(put(h, task.id, err), "put", task, "Error", err)
         ELSE IF task_value # PyNone \/ store_none
              THEN noteV(put(h, task.id, task_value), "put", task, "value", task_value)
              ELSE h
    ELSE h

\* The continuation chosen without looking at how the run ended.
continuation_any(task, exception) ==
    IF task.on_complete # None THEN "on_complete"
    ELSE IF task.on_error # None /\ exception # None THEN "on_error"
    ELSE "none"

\* Which continuation a finished run enqueues.
continuation(task, exception) ==
    IF task.on_complete # None /\ exception = None THEN "on_complete"
    ELSE IF task.on_error # None /\ exception # None THEN "on_error"
    ELSE "none"

\* Whether a finished run is requeued.
should_retry(task, exception) == exception # None /\ task.retries # 0

RECURSIVE enqueue(_, _)
RECURSIVE execute(_, _, _)
RECURSIVE _execute(_, _, _)
RECURSIVE _requeue_task(_, _, _)
RECURSIVE finish(_, _, _, _)

\* enqueue that always hands the task to the broker.
enqueue_deferred(h, task) ==
    { R(storage_enqueue(emit(h, "ENQUEUED", task), serialize_task(task)),
        task, enqueue_result(task)) }

\* Huey.enqueue: in immediate mode the task is executed by the caller.
enqueue(h, task) ==
    LET h1 == emit(h, "ENQUEUED", task)
    IN IF immediate
       THEN { R(r.h, r.task, enqueue_result(r.task)) : r \in execute(h1, task, now) }
       ELSE { R(storage_enqueue(h1, serialize_task(task)), task, enqueue_result(task)) }

\* execute that consults the revocations before it looks at the eta.
execute_revoked_first(h, task, timestamp) ==
    LET c == is_revoked(h, task, timestamp, FALSE)
    IN IF c.revoked
       THEN { R(drop(emit(c.h, "REVOKED", task), task), task, RetNone) }
       ELSE IF ~ready_to_run(task, timestamp)
       THEN { R(add_schedule(c.h, task), task, RetNone) }
       ELSE _execute(emit(c.h, "EXECUTING", task), task, timestamp)

\* Huey.execute
execute(h, task, timestamp) ==
    IF ~ready_to_run(task, timestamp)
    THEN { R(add_schedule(h, task), task, RetNone) }
    ELSE LET c == is_revoked(h, task, timestamp, FALSE)
         IN IF c.revoked
            THEN { R(drop(emit(c.h, "REVOKED", task), task), task, RetNone) }
            ELSE _execute(emit(c.h, "EXECUTING", task), task, timestamp)

\* Huey._execute: the pre-execute hooks, then the body.  The body is not
\* started once the task has run MaxRuns times (the bound of the model).
_execute(h, task, timestamp) ==
    LET pre == IF pre_execute # <<>> THEN _run_pre_execute(h, task)
               ELSE {[h |-> h, cancelled |-> FALSE]}
    IN UNION {
         IF p.cancelled
         THEN { R(drop(emit(p.h, "CANCELED", task), task), task, RetNone) }
         ELSE IF p.h.runs[task.id] >= MaxRuns THEN {}
         ELSE LET h1 == [p.h EXCEPT !.runs[task.id] = @ + 1]
              IN UNION { finish(noteV(h1, "body", task, o.k, o.v), task, timestamp, o) :
                           o \in BodyOutcomes(task) }
         : p \in pre }

\* Huey._execute from the except clauses on, for an outcome that one of them
\* (or the else clause) keeps: the result store, the post-execute hooks, the
\* continuation, the retry.
after_run(h, task, timestamp, o) ==
    LET c == caught(h, task, o)
        h2 == store_result(c.h, c.task, c.exception, c.task_value)
        h3 == IF post_execute # <<>> THEN _run_post_execute(h2, c.task) ELSE h2
        which == continuation(c.task, c.exception)
        chained ==
            IF which = "on_complete"
            THEN { R(r.h, [c.task EXCEPT !.on_complete = Some(r.task)], RetNone) :
                     r \in enqueue(h3, extend_data(c.task.on_complete[1], c.task_value)) }
            ELSE IF which = "on_error"
            THEN { R(r.h, [c.task EXCEPT !.on_error = Some(r.task)], RetNone) :
                     r \in enqueue(h3, extend_data(c.task.on_error[1], c.exception[1])) }
            ELSE { R(h3, c.task, RetNone) }
    IN UNION {
         IF should_retry(n.task, c.exception)
         THEN { R(r.h, r.task, RetValue(c.task_value)) :
                  r \in _requeue_task(emit(n.h, "RETRYING", n.task), n.task, now) }
         ELSE { R(n.h, n.task, RetValue(c.task_value)) }
         : n \in chained }

\* _execute that takes an interrupt for an unhandled exception of the body.
finish_interrupt_caught(h, task, timestamp, o) ==
    after_run(h, task, timestamp,
              IF o.k = "KeyboardInterrupt" THEN Raise("Exception") ELSE o)

\* Huey._execute after task.execute() ended with outcome o: "except
\* KeyboardInterrupt" returns on the spot.
finish(h, task, timestamp, o) ==
    IF o.k = "KeyboardInterrupt" THEN { R(drop(h, task), task, RetNone) }
    ELSE after_run(h, task, timestamp, o)

\* _requeue_task without the decrement of retries.
_requeue_task_no_decrement(h, task, timestamp) ==
    IF task.retry_delay # 0
    THEN LET t2 == [task EXCEPT !.eta = Some(timestamp + task.retry_delay)]
         IN { R(add_schedule(h, t2), t2, RetNone) }
    ELSE enqueue(h, task)

\* _requeue_task that puts the task on the queue whatever its retry_delay.
_requeue_task_no_delay(h, task, timestamp) ==
    enqueue(h, [task EXCEPT !.retries = @ - 1])

\* Huey._requeue_task
_requeue_task(h, task, timestamp) ==
    LET t1 == [task EXCEPT !.retries = @ - 1]
    IN IF t1.retry_delay # 0
       THEN LET t2 == [t1 EXCEPT !.eta = Some(timestamp + t1.retry_delay)]
            IN { R(add_schedule(h, t2), t2, RetNone) }
       ELSE enqueue(h, t1)

(***************************************************************************)
(* Result: a non-blocking get on a fresh handle, as Huey.result builds it. *)
(***************************************************************************)
\* Result._get that peeks whatever preserve says.
Result_get_peek(h, id, preserve) ==
    LET r == get_raw(h, id, TRUE)
    IN [h |-> r.h,
        res |-> IF r.data # EmptyData THEN Some(deserialize(r.data[1])) ELSE EmptyData]

\* Result._get with self._result still EmptyData: pop the record, or peek
\* at it when preserve is set.  res is an option: EmptyData or the value.
Result_get_(h, id, preserve) ==
    LET r == get_raw(h, id, preserve)
    IN [h |-> r.h,
        res |-> IF r.data # EmptyData THEN Some(deserialize(r.data[1])) ELSE EmptyData]

\* Result.get_raw_result(blocking=False): the value, or None when absent.
get_raw_result(h, id, preserve) ==
    LET g == Result_get_(h, id, preserve)
    IN [h |-> g.h, result |-> IF g.res # EmptyData THEN g.res[1] ELSE PyNone]

\* Result.get: an Error record is raised as TaskException(metadata).
Result_get(h, id, preserve) ==
    LET g == get_raw_result(h, id, preserve)
    IN [h |-> g.h,
        ret |-> IF g.result # PyNone /\ g.result.t = "Error"
                THEN [k |-> "TaskException", error |-> g.result.error,
                      retries |-> g.result.retries]
                ELSE RetValue(g.result)]

(***************************************************************************)
(* TaskLock.                                                               *)
(***************************************************************************)
\* TaskLock.__init__: the key of a lock name (the queue is named "huey").
lock_key(name) == "huey.lock." \o name

\* __enter__ that releases the lock when it fails to take it.
TaskLock_enter_pop(h, name) ==
    LET p == put_if_empty(h, lock_key(name), Atom("1"))
    IN [h |-> IF p.ok THEN p.h ELSE get_raw(p.h, lock_key(name), FALSE).h,
        raised |-> ~p.ok]

\* TaskLock.__enter__: TaskLockedException unless put_if_empty wrote the key.
TaskLock_enter(h, name) ==
    LET p == put_if_empty(h, lock_key(name), Atom("1"))
    IN [h |-> p.h, raised |-> ~p.ok]

\* TaskLock.__exit__
TaskLock_exit(h, name) == get_raw(h, lock_key(name), FALSE).h

(***************************************************************************)
(* The state machine.                                                      *)
(***************************************************************************)
Keys == TaskIds \cup {"r:" \o i : i \in TaskIds}
        \cup {task_key(c) : c \in TaskClasses}
        \cup {lock_key(l) : l \in LockNames}

\* The continuations of the model: each echoes its first argument.
B == TaskInit("echo", <<"b0">>, {<<"k", "own">>}, "b", None, 0, 0, None, None)
E == TaskInit("echo", <<>>, {}, "e", None, 0, 0, None, None)

\* TaskWrapper.s, then Task.then / Task.error: the task a producer builds.
Build(name, eta, retries, retry_delay, oc, oe) ==
    LET t0 == TaskInit(name, <<>>, {}, "a", eta, retries, retry_delay, None, None)
        t1 == IF oc THEN then(t0, B) ELSE t0
    IN IF oe THEN error(t1, E) ELSE t1

\* The tasks of the model: a task that always fails over every retry
\* budget and delay, tasks that may end in any way, plain (with a delay)
\* and chained (with and without a future eta), and a periodic task.
Templates ==
    { Build("boom", None, k, d, FALSE, FALSE) : k \in 0..MaxRetries, d \in {0, 1} }
    \cup { Build("flaky", None, k, 1, FALSE, FALSE) : k \in {0, 1} }
    \cup { Build("flaky", eta, k, 0, oc, oe) :
        eta \in {None, Some(1)}, k \in {0, 1}, oc \in BOOLEAN, oe \in BOOLEAN }
    \cup { Build("cron", None, k, 0, oc, FALSE) : k \in {0, 1}, oc \in BOOLEAN }

NoHooks == <<>>
Hooks == [i \in 1..MaxHooks |-> "hook"]

\* A worker that is not inside is_revoked.
NoCheck == [pc |-> "idle", ts |-> 0, c |-> <<FALSE, FALSE>>, once |-> FALSE,
            at |-> 0, verdict |-> "none", rec |-> None]

\* No schedule predicate has been built.
NoCron == [built |-> FALSE, field |-> 0, rest |-> FALSE, value |-> <<>>,
           error |-> "", cron_settings |-> <<>>]
NoEvery == [built |-> FALSE, interval |-> 0, start |-> 0, end |-> 0,
            invert |-> FALSE, next |-> None, asked |-> <<>>]

\* Nobody is blocked in Result.get.
NoPoll == [pc |-> "idle", start |-> 0, delay |-> 0, timeout |-> 0,
           revoke_on_timeout |-> FALSE, preserve |-> FALSE, result |-> EmptyData]

\* The state after construction: an empty broker; the settings, the hook
\* tables and the producer's task are picked from the given sets.
Start(tables, tasks) ==
    /\ results \in BOOLEAN
    /\ store_none \in (IF results THEN BOOLEAN ELSE {FALSE})
    /\ immediate \in BOOLEAN
    /\ pre_execute \in tables
    /\ post_execute = pre_execute
    /\ queue = <<>>
    /\ schedule = <<>>
    /\ store = [key \in Keys |-> EmptyData]
    /\ now = 0
    /\ tmpl \in tasks
    /\ enq = 0
    /\ runs = [i \in TaskIds |-> 0]
    /\ dropped = [i \in TaskIds |-> 0]
    /\ revokes = 0
    /\ trace = <<>>
    /\ op = [name |-> "init", id |-> ""]
    /\ ret = RetNone
    /\ held = [w \in Workers |-> {}]
    /\ chk = [w \in Workers |-> NoCheck]
    /\ poll = NoPoll
    /\ cron = NoCron
    /\ every = NoEvery

Init == Start({NoHooks}, Templates)

\* The dispatcher's state as a call finds it, and as it leaves it.
H0 == [queue |-> queue, schedule |-> schedule, store |-> store,
       trace |-> <<>>, runs |-> runs, dropped |-> dropped]

Commit(h) ==
    /\ queue' = h.queue
    /\ schedule' = h.schedule
    /\ store' = h.store
    /\ trace' = h.trace
    /\ runs' = h.runs
    /\ dropped' = h.dropped

Config == <<results, store_none, immediate, pre_execute, post_execute, tmpl>>

\* The state of the calls that are followed step by step.
Locals == <<chk, poll, cron, every>>

\* A producer calls the task, at most limit times: huey.enqueue(task).
Call(limit) ==
    /\ enq < limit
    /\ \E r \in enqueue(H0, tmpl) :
         /\ Commit(r.h)
         /\ ret' = r.ret
    /\ enq' = enq + 1
    /\ op' = [name |-> "enqueue", id |-> tmpl.id]
    /\ UNCHANGED <<Config, Locals, now, revokes, held>>

Enqueue == Call(MaxEnq)

\* A consumer worker: dequeue a task and execute it.
Worker ==
    /\ queue # <<>>
    /\ LET task == deserialize_task(Head(queue))
       IN /\ \E r \in execute([H0 EXCEPT !.queue = Tail(queue)], task, now) :
               /\ Commit(r.h)
               /\ ret' = r.ret
          /\ op' = [name |-> "execute", id |-> task.id]
    /\ UNCHANGED <<Config, Locals, now, enq, revokes, held>>

\* The consumer's scheduler: every due entry of the schedule is enqueued.
RECURSIVE enqueue_all(_, _)
enqueue_all(h, due) ==
    IF due = <<>> THEN {h}
    ELSE UNION { enqueue_all(r.h, Tail(due)) :
                   r \in enqueue(h, deserialize_task(Head(due))) }

Scheduler ==
    /\ DueCount(schedule, now) > 0
    /\ LET rs == storage_read_schedule(H0, now)
       IN \E h \in enqueue_all(rs.h, rs.due) : Commit(h)
    /\ ret' = RetNone
    /\ op' = [name |-> "read_schedule", id |-> ""]
    /\ UNCHANGED <<Config, Locals, now, enq, revokes, held>>

Untils == {None} \cup {Some(t) : t \in 1..MaxTime}

\* huey.revoke(task, revoke_until, revoke_once), at most limit calls of
\* revoke and revoke_all together
RevokeUpTo(limit, revoke_until, revoke_once) ==
    /\ revokes < limit
    /\ revokes' = revokes + 1
    /\ store' = revoke(H0, tmpl, revoke_until, revoke_once).store
    /\ trace' = <<>>
    /\ ret' = RetNone
    /\ op' = [name |-> "other", id |-> ""]
    /\ UNCHANGED <<Config, Locals, queue, schedule, now, enq, runs, dropped, held>>

Revoke(revoke_until, revoke_once) == RevokeUpTo(MaxRevokes, revoke_until, revoke_once)

\* huey.revoke_all(task_class, revoke_until, revoke_once)
RevokeAllUpTo(limit, revoke_until, revoke_once) ==
    /\ revokes < limit
    /\ revokes' = revokes + 1
    /\ store' = revoke_all(H0, tmpl.name, revoke_until, revoke_once).store
    /\ trace' = <<>>
    /\ ret' = RetNone
    /\ op' = [name |-> "other", id |-> ""]
    /\ UNCHANGED <<Config, Locals, queue, schedule, now, enq, runs, dropped, held>>

RevokeAll(revoke_until, revoke_once) ==
    RevokeAllUpTo(MaxRevokes, revoke_until, revoke_once)

\* huey.restore(task)
Restore ==
    /\ store[revoke_id(tmpl)] # EmptyData
    /\ store' = restore(H0, tmpl).h.store
    /\ trace' = <<>>
    /\ ret' = RetNone
    /\ op' = [name |-> "other", id |-> ""]
    /\ UNCHANGED <<Config, Locals, queue, schedule, now, enq, runs, dropped, revokes, held>>

\* huey.restore_all(task_class)
RestoreAll ==
    /\ store[task_key(tmpl.name)] # EmptyData
    /\ store' = restore_all(H0, tmpl.name).h.store
    /\ trace' = <<>>
    /\ ret' = RetNone
    /\ op' = [name |-> "other", id |-> ""]
    /\ UNCHANGED <<Config, Locals, queue, schedule, now, enq, runs, dropped, revokes, held>>

\* huey.result(id, preserve=preserve): a non-blocking read by task id.
ResultGet(id, preserve) ==
    /\ LET g == Result_get(H0, id, preserve)
       IN /\ store' = g.h.store
          /\ ret' = g.ret
    /\ trace' = <<>>
    /\ op' = [name |-> "result", id |-> id, preserve |-> preserve]
    /\ UNCHANGED <<Config, Locals, queue, schedule, now, enq, runs, dropped, revokes, held>>

\* Time passes.
Tick ==
    /\ now < MaxTime
    /\ now' = now + 1
    /\ trace' = <<>>
    /\ ret' = RetNone
    /\ op' = [name |-> "other", id |-> ""]
    /\ UNCHANGED <<Config, Locals, queue, schedule, store, enq, runs, dropped, revokes, held>>

\* Producers, consumers and readers of results.
Next ==
    \/ Enqueue
    \/ Worker
    \/ Scheduler
    \/ \E p \in BOOLEAN : ResultGet(tmpl.id, p)
    \/ Tick

Spec == Init /\ [][Next]_vars

(***************************************************************************)
(* The same dispatcher with everything that can keep a task from running:  *)
(* revocations of the task and of its class, pre-execute hooks, an eta.    *)
(***************************************************************************)
GateTemplates ==
    { Build("work", None, k, 0, FALSE, FALSE) : k \in {0, 1} }
    \cup { Build("work", Some(1), 0, 0, FALSE, FALSE),
            Build("cron", None, 0, 0, FALSE, FALSE) }

InitGate == Start({NoHooks, Hooks}, GateTemplates)

\* The producer calls once more than in Spec: an attempt that was skipped
\* is followed by another.
EnqueueAgain == Call(MaxEnq + 1)

NextGate ==
    \/ EnqueueAgain
    \/ Worker
    \/ Scheduler
    \/ \E p \in BOOLEAN : ResultGet(tmpl.id, p)
    \/ Tick
    \/ \E u \in Untils, o \in BOOLEAN : Revoke(u, o)
    \/ \E u \in Untils, o \in BOOLEAN : RevokeAll(u, o)
    \/ Restore
    \/ RestoreAll

SpecGate == InitGate /\ [][NextGate]_vars

(***************************************************************************)
(* Workers that run lock-protected regions: "with huey.lock_task(name)".   *)
(* A with statement calls __exit__ only after __enter__ returned.          *)
(***************************************************************************)
InitLock == Start({NoHooks}, {Build("work", None, 0, 0, FALSE, FALSE)})

\* A worker reaches a with statement: TaskLock.__enter__.
Acquire(w, name) ==
    /\ LET r == TaskLock_enter(H0, name)
       IN /\ store' = r.h.store
          /\ held' = IF r.raised THEN held ELSE [held EXCEPT ![w] = @ \cup {name}]
          /\ ret' = IF r.raised THEN [k |-> "TaskLockedException"] ELSE RetNone
    /\ trace' = <<>>
    /\ op' = [name |-> "acquire", id |-> name, w |-> w]
    /\ UNCHANGED <<Config, Locals, queue, schedule, now, enq, runs, dropped, revokes>>

\* A worker leaves the protected region: TaskLock.__exit__.
Release(w, name) ==
    /\ name \in held[w]
    /\ store' = TaskLock_exit(H0, name).store
    /\ held' = [held EXCEPT ![w] = @ \ {name}]
    /\ ret' = RetNone
    /\ trace' = <<>>
    /\ op' = [name |-> "release", id |-> name, w |-> w]
    /\ UNCHANGED <<Config, Locals, queue, schedule, now, enq, runs, dropped, revokes>>

NextLock ==
    \/ \E w \in Workers, name \in LockNames : Acquire(w, name)
    \/ \E w \in Workers, name \in LockNames : Release(w, name)

SpecLock == InitLock /\ [][NextLock]_vars

(***************************************************************************)
(* The dispatcher with one hook more than MaxHooks registered, and tasks   *)
(* that have retries and both continuations.                               *)
(***************************************************************************)
MoreHooks == [i \in 1..(MaxHooks + 1) |-> "hook"]

HookTemplates ==
    { Build("work", None, k, 0, ch, ch) : k \in {0, 1}, ch \in BOOLEAN }
    \cup { Build("work", Some(1), 1, 0, FALSE, FALSE) }

InitHooks == Start({MoreHooks}, HookTemplates)

SpecHooks == InitHooks /\ [][Next]_vars

(***************************************************************************)
(* Workers inside Huey.is_revoked(task, timestamp, peek=False), as execute *)
(* calls it.  Each storage call is one step: the read of the task's record *)
(* (_check_revoked), its deletion (restore), the read of the class record  *)
(* and its deletion (restore_all); what a worker read stays in its locals. *)
(***************************************************************************)
InitRace == Start({NoHooks}, {Build("work", None, 0, 0, FALSE, FALSE)})

\* is_revoked returns: execute emits REVOKED, or EXECUTING and runs the body.
Verdict(c) == IF c[1] THEN "revoked" ELSE "run"

CheckStep(w, next) ==
    /\ chk' = [chk EXCEPT ![w] = next]
    /\ trace' = <<>>
    /\ op' = [name |-> "check", id |-> tmpl.id, w |-> w]
    /\ UNCHANGED <<Config, poll, cron, every, queue, schedule, now, enq, runs, dropped, revokes, held>>

\* execute reads the clock, is_revoked calls _check_revoked on the task's record.
CheckInstance(w) ==
    /\ chk[w].pc = "idle"
    /\ LET c == _check_revoked(H0, revoke_id(tmpl), now, FALSE)
           rec == get(H0, revoke_id(tmpl), TRUE).data
       IN CheckStep(w, [pc |-> IF c[2] THEN "restore"
                               ELSE IF c[1] THEN "done" ELSE "class",
                        ts |-> now, c |-> c,
                        once |-> (rec # None /\ rec[1][2]),
                        at |-> revokes,
                        verdict |-> IF ~c[2] /\ c[1] THEN "revoked" ELSE "none",
                        rec |-> rec])
    /\ ret' = RetNone
    /\ UNCHANGED store

\* if can_restore: self.restore(task)
RestoreInstance(w) ==
    /\ chk[w].pc = "restore"
    /\ LET r == restore(H0, tmpl)
       IN /\ store' = r.h.store
          /\ ret' = [k |-> "restored", was |-> r.was]
    /\ CheckStep(w, [chk[w] EXCEPT !.pc = IF chk[w].c[1] THEN "done" ELSE "class",
                                   !.verdict = IF chk[w].c[1] THEN "revoked" ELSE "none"])

\* if not is_revoked: self.is_revoked(type(task), timestamp, peek)
CheckClass(w) ==
    /\ chk[w].pc = "class"
    /\ LET c == _check_revoked(H0, task_key(tmpl.name), chk[w].ts, FALSE)
       IN CheckStep(w, [chk[w] EXCEPT !.pc = IF c[2] THEN "restore_all" ELSE "done",
                                     !.c = c,
                                     !.rec = get(H0, task_key(tmpl.name), TRUE).data,
                                     !.verdict = IF c[2] THEN "none" ELSE Verdict(c)])
    /\ ret' = RetNone
    /\ UNCHANGED store

\* if can_restore: self.restore_all(task)
RestoreClass(w) ==
    /\ chk[w].pc = "restore_all"
    /\ LET r == restore_all(H0, tmpl.name)
       IN /\ store' = r.h.store
          /\ ret' = [k |-> "restored", was |-> r.was]
    /\ CheckStep(w, [chk[w] EXCEPT !.pc = "done", !.verdict = Verdict(chk[w].c)])

\* The two workers that were handed a copy of the task.
Racers == {"w1", "w2"}

NextRace ==
    \/ \E u \in Untils, o \in BOOLEAN : Revoke(u, o)
    \/ \E u \in Untils, o \in BOOLEAN : RevokeAll(u, o)
    \/ Tick
    \/ \E w \in Racers : CheckInstance(w)
    \/ \E w \in Racers : RestoreInstance(w)
    \/ \E w \in Racers : CheckClass(w)
    \/ \E w \in Racers : RestoreClass(w)

SpecRace == InitRace /\ [][NextRace]_vars

(***************************************************************************)
(* One worker inside is_revoked and a revoker that calls once more than    *)
(* in SpecRace: a record to be read, and a record written after the read.  *)
(***************************************************************************)
NextLost ==
    \/ \E u \in Untils, o \in BOOLEAN : RevokeUpTo(MaxRevokes + 1, u, o)
    \/ \E u \in Untils, o \in BOOLEAN : RevokeAllUpTo(MaxRevokes + 1, u, o)
    \/ Tick
    \/ CheckInstance("w1")
    \/ RestoreInstance("w1")
    \/ CheckClass("w1")
    \/ RestoreClass("w1")

SpecLost == InitRace /\ [][NextLost]_vars

(***************************************************************************)
(* A caller blocked in Result.get(blocking=True, timeout=...) on the handle *)
(* that enqueue returned, while the consumer runs.  One pass of the polling *)
(* loop is one step; the clock is in seconds, the delay in milliseconds.    *)
(***************************************************************************)
\* get_raw_result's defaults: delay = .1, backoff = 1.15, max_delay = 1.0
Delay0 == 100
Backoff == 115
MaxDelay == 1000

\* The exception classes that api.py's import statements bind.
ModuleExceptions == {"CancelExecution", "ConfigurationError", "RetryTask",
                     "TaskException", "TaskLockedException"}

\* "raise <name>": the name is looked up when the statement runs; a name
\* that the module does not bind raises NameError instead.
raise_name(n) == IF n \in ModuleExceptions THEN n ELSE "NameError"

InitPoll == Start({NoHooks}, {Build("work", None, 0, 0, FALSE, FALSE)})

PollStep(next) ==
    /\ poll' = next
    /\ trace' = <<>>
    /\ op' = [name |-> "poll", id |-> tmpl.id]
    /\ UNCHANGED <<Config, chk, cron, every, queue, schedule, now, enq, runs, dropped, revokes, held>>

\* result.get(blocking=True, timeout, revoke_on_timeout, preserve): start = time.time()
GetBlocking(timeout, revoke_on_timeout, preserve) ==
    /\ poll.pc = "idle"
    /\ enq > 0
    /\ PollStep([NoPoll EXCEPT !.pc = "polling", !.start = now, !.delay = Delay0,
                               !.timeout = timeout,
                               !.revoke_on_timeout = revoke_on_timeout,
                               !.preserve = preserve])
    /\ ret' = RetNone
    /\ UNCHANGED store

\* The loop is left with self._result set: get_raw_result returns it, and
\* Result.get raises an Error record as TaskException.
PollReturn ==
    /\ poll.pc = "polling"
    /\ poll.result # EmptyData
    /\ PollStep([poll EXCEPT !.pc = "done"])
    /\ ret' = LET result == poll.result[1]
              IN IF result # PyNone /\ result.t = "Error"
                 THEN [k |-> "TaskException", error |-> result.error,
                       retries |-> result.retries]
                 ELSE RetValue(result)
    /\ UNCHANGED store

\* The timeout has elapsed: revoke the task if asked to, then raise.
PollTimeout ==
    /\ poll.pc = "polling"
    /\ poll.result = EmptyData
    /\ poll.timeout # 0 /\ now - poll.start >= poll.timeout
    /\ store' = IF poll.revoke_on_timeout THEN revoke(H0, tmpl, None, TRUE).store
                ELSE store
    /\ PollStep([poll EXCEPT !.pc = "done"])
    /\ ret' = [k |-> raise_name("DataStoreTimeout")]

\* One more look at the result store; a miss sleeps and stretches the delay.
PollOnce ==
    /\ poll.pc = "polling"
    /\ poll.result = EmptyData
    /\ ~(poll.timeout # 0 /\ now - poll.start >= poll.timeout)
    /\ LET delay == IF poll.delay > MaxDelay THEN MaxDelay ELSE poll.delay
           g == Result_get_(H0, tmpl.id, poll.preserve)
       IN /\ store' = g.h.store
          /\ PollStep([poll EXCEPT !.result = g.res,
                                   !.delay = IF g.res = EmptyData
                                             THEN (delay * Backoff) \div 100
                                             ELSE delay])
    /\ ret' = RetNone

NextPoll ==
    \/ Enqueue
    \/ Worker
    \/ Tick
    \/ \E t \in 0..MaxTime, r, p \in BOOLEAN : GetBlocking(t, r, p)
    \/ PollReturn
    \/ PollTimeout
    \/ PollOnce

SpecPoll == InitPoll /\ [][NextPoll]_vars

(***************************************************************************)
(* crontab(minute, hour, day, month, day_of_week).  An argument is text: a *)
(* sequence of characters, split at commas and matched piece by piece, or  *)
(* a Python int, which crontab turns into text first.                      *)
(***************************************************************************)
Digit == <<"0", "1", "2", "3", "4", "5", "6", "7", "8", "9">>
DigitChars == {Digit[i] : i \in 1..Len(Digit)}

\* str(n) of a non-negative int
RECURSIVE str(_)
str(n) == IF n < Len(Digit) THEN <<Digit[n + 1]>>
          ELSE str(n \div Len(Digit)) \o <<Digit[(n % Len(Digit)) + 1]>>

digit_value(ch) == (CHOOSE i \in 1..Len(Digit) : Digit[i] = ch) - 1

\* int(s) of a string of digits
RECURSIVE int(_)
int(s) == IF Len(s) = 1 THEN digit_value(s[1])
          ELSE Len(Digit) * int(SubSeq(s, 1, Len(s) - 1)) + digit_value(s[Len(s)])

\* s.isdigit(): false for the empty string
isdigit(s) == s # <<>> /\ \A i \in 1..Len(s) : s[i] \in DigitChars

\* s.split(sep)
RECURSIVE split(_, _)
split(s, sep) ==
    IF \A i \in 1..Len(s) : s[i] # sep THEN <<s>>
    ELSE LET k == CHOOSE i \in 1..Len(s) :
                      s[i] = sep /\ \A j \in 1..(i - 1) : s[j] # sep
         IN <<SubSeq(s, 1, k - 1)>> \o split(SubSeq(s, k + 1, Len(s)), sep)

\* How many characters a greedy \d+ takes at the start of s (0: no match).
digits(s) ==
    LET ns == {n \in 0..Len(s) : \A i \in 1..n : s[i] \in DigitChars}
    IN CHOOSE n \in ns : \A k \in ns : k <= n

\* dash_re.match(piece): (\d+)-(\d+) at the start of the piece; the groups as ints.
dash_re_match(piece) ==
    LET a == digits(piece)
        rest == SubSeq(piece, a + 1, Len(piece))
    IN IF a = 0 \/ rest = <<>> \/ rest[1] # "-" THEN None
       ELSE LET b == digits(Tail(rest))
            IN IF b = 0 THEN None
               ELSE Some(<<int(SubSeq(piece, 1, a)), int(SubSeq(Tail(rest), 1, b))>>)

\* every_re.match(piece): \*\/(\d+) at the start of the piece; the group as int.
every_re_match(piece) ==
    IF Len(piece) < 2 \/ piece[1] # "*" \/ piece[2] # "/" THEN None
    ELSE LET r == SubSeq(piece, 3, Len(piece))
         IN IF digits(r) = 0 THEN None ELSE Some(int(SubSeq(r, 1, digits(r))))

\* The validation table: per field, range(lo, hi + 1).
Fields == <<"m", "d", "w", "H", "M">>
Acceptable(date_str) ==
    CASE date_str = "m" -> [lo |-> 1, hi |-> 12]
      [] date_str = "d" -> [lo |-> 1, hi |-> 31]
      [] date_str = "w" -> [lo |-> 0, hi |-> 7]
      [] date_str = "H" -> [lo |-> 0, hi |-> 23]
      [] date_str = "M" -> [lo |-> 0, hi |-> 59]

\* acceptable[::interval] that counts from zero instead of from the first value.
every_nth_from_zero(acceptable, interval) ==
    {x \in acceptable.lo..acceptable.hi : x % interval = 0}

\* acceptable[::interval]
every_nth(acceptable, interval) ==
    {x \in acceptable.lo..acceptable.hi : (x - acceptable.lo) % interval = 0}

Settings(s) == [error |-> "", settings |-> s]
ValueError == [error |-> "ValueError", settings |-> {}]

\* A range piece: "lhs %= 7; rhs %= 7" for day-of-week, then range(lhs, rhs + 1).
range_piece(date_str, lhs, rhs) ==
    IF date_str = "w" THEN (lhs % 7)..(rhs % 7) ELSE lhs..rhs

\* One pass of "for piece in value.split(',')": what the piece adds.
cron_piece(date_str, piece, acceptable) ==
    IF piece = <<"*">> THEN Settings(acceptable.lo..acceptable.hi)
    ELSE IF isdigit(piece)
    THEN IF int(piece) \notin acceptable.lo..acceptable.hi THEN ValueError
         ELSE Settings({IF date_str = "w" THEN int(piece) % 7 ELSE int(piece)})
    ELSE IF dash_re_match(piece) # None
    THEN LET lhs == dash_re_match(piece)[1][1]
             rhs == dash_re_match(piece)[1][2]
         IN IF lhs \notin acceptable.lo..acceptable.hi
               \/ rhs \notin acceptable.lo..acceptable.hi
            THEN ValueError
            ELSE Settings(range_piece(date_str, lhs, rhs))
    ELSE IF every_re_match(piece) # None
    THEN IF date_str = "w" \/ every_re_match(piece)[1] = 0 THEN ValueError
         ELSE Settings(every_nth(acceptable, every_re_match(piece)[1]))
    ELSE Settings({})

RECURSIVE cron_pieces(_, _, _, _)
cron_pieces(date_str, pieces, acceptable, settings) ==
    IF pieces = <<>> THEN Settings(settings)
    ELSE LET p == cron_piece(date_str, Head(pieces), acceptable)
         IN IF p.error # "" THEN p
            ELSE cron_pieces(date_str, Tail(pieces), acceptable, settings \cup p.settings)

\* One pass of "for (date_str, value, acceptable) in validation".  value is
\* [int |-> n] or [text |-> characters].
cron_field(date_str, value) ==
    LET text == IF "int" \in DOMAIN value THEN str(value.int) ELSE value.text
    IN cron_pieces(date_str, split(text, ","), Acceptable(date_str), {})

\* crontab(): cron_settings in the order month, day, day-of-week, hour,
\* minute (each kept as the set of the sorted list's items), or the error.
RECURSIVE crontab_from(_, _, _)
crontab_from(values, i, cron_settings) ==
    IF i > Len(Fields) THEN [error |-> "", cron_settings |-> cron_settings]
    ELSE LET f == cron_field(Fields[i], values[i])
         IN IF f.error # "" THEN [error |-> f.error, cron_settings |-> <<>>]
            ELSE crontab_from(values, i + 1, Append(cron_settings, f.settings))

crontab(values) == crontab_from(values, 1, <<>>)

\* validate_date(timestamp): timetuple() counts the weekday from Monday = 0.
validate_date(cron_settings, timestamp) ==
    LET w == (timestamp.weekday + 1) % 7
        pieces == <<timestamp.month, timestamp.day, w, timestamp.hour, timestamp.minute>>
    IN \A i \in 1..Len(Fields) : pieces[i] \in cron_settings[i]

(***************************************************************************)
(* Callers of crontab.  One argument is written in one of the forms of the *)
(* docstring, the others are all '*' or all the first value of their field *)
(* given as an int; the predicate is then asked about timestamps.          *)
(***************************************************************************)
Star == [f |-> "star", a |-> 0, b |-> 0]
Number(v) == [f |-> "int", a |-> v, b |-> 0]
Range(m, n) == [f |-> "range", a |-> m, b |-> n]
Step(n) == [f |-> "step", a |-> n, b |-> 0]

\* The text of a piece, and of a comma list of pieces.
piece_text(p) ==
    CASE p.f = "star" -> <<"*">>
      [] p.f = "int" -> str(p.a)
      [] p.f = "range" -> str(p.a) \o <<"-">> \o str(p.b)
      [] p.f = "step" -> <<"*", "/">> \o str(p.a)

RECURSIVE list_text(_)
list_text(ps) ==
    IF Len(ps) = 1 THEN piece_text(ps[1])
    ELSE piece_text(Head(ps)) \o <<",">> \o list_text(Tail(ps))

\* The numbers a caller writes for a field, and the steps.
Numbers(date_str) ==
    {Acceptable(date_str).lo, Acceptable(date_str).hi - 1, Acceptable(date_str).hi}
StepSizes == (1..MaxStep) \cup {15}

Pieces(date_str) ==
    {Star} \cup {Number(v) : v \in Numbers(date_str)}
           \cup {Range(m, n) : m, n \in Numbers(date_str)}
           \cup {Step(n) : n \in StepSizes}

Lists(date_str) ==
    UNION {[1..n -> Pieces(date_str)] : n \in 1..MaxPieces}

\* The five arguments of a call.
Values(field, value, rest) ==
    [i \in 1..Len(Fields) |->
        IF i = field THEN [text |-> list_text(value)]
        ELSE IF rest THEN [int |-> Acceptable(Fields[i]).lo]
        ELSE [text |-> <<"*">>]]

\* The timestamps asked about: the argument's field takes the caller's
\* numbers, the other fields are all at their first or all at their last value.
Weekdays == 0..6
Timestamps(field) ==
    LET pick(i, x, last) ==
            IF i = field THEN x
            ELSE IF last THEN Acceptable(Fields[i]).hi - (IF Fields[i] = "w" THEN 1 ELSE 0)
            ELSE Acceptable(Fields[i]).lo
        \* the weekday with Sunday = 0, as timetuple() reports it
        monday0(w) == (w + 6) % 7
    IN { [month |-> pick(1, x, last), day |-> pick(2, x, last),
          weekday |-> monday0(pick(3, x, last)),
          hour |-> pick(4, x, last), minute |-> pick(5, x, last)] :
            x \in IF Fields[field] = "w" THEN Weekdays
                  ELSE Numbers(Fields[field]) \cup {15},
            last \in BOOLEAN }

\* A dispatcher with the default settings, and no predicate yet.
InitCron ==
    /\ Start({NoHooks}, {Build("work", None, 0, 0, FALSE, FALSE)})
    /\ results /\ ~store_none /\ ~immediate

Pure == <<Config, chk, poll, queue, schedule, store, now, enq, runs, dropped,
          revokes, held, trace>>

\* validate = crontab(...)
Crontab(field, value, rest) ==
    /\ cron = NoCron
    /\ LET r == crontab(Values(field, value, rest))
       IN cron' = [built |-> r.error = "", field |-> field, rest |-> rest,
                   value |-> value, error |-> r.error,
                   cron_settings |-> r.cron_settings]
    /\ ret' = RetNone
    /\ op' = [name |-> "crontab", id |-> ""]
    /\ UNCHANGED <<Pure, every>>

\* validate(timestamp)
ValidateDate(timestamp) ==
    /\ ret' = [k |-> "bool", b |-> validate_date(cron.cron_settings, timestamp)]
    /\ op' = [name |-> "validate_date", id |-> "", timestamp |-> timestamp]
    /\ UNCHANGED <<Pure, cron, every>>

NextCron ==
    \/ cron = NoCron /\ \E field \in 1..Len(Fields) : \E value \in Lists(Fields[field]), rest \in BOOLEAN :
          Crontab(field, value, rest)
    \/ cron.built /\ \E timestamp \in Timestamps(cron.field) : ValidateDate(timestamp)

SpecCron == InitCron /\ [][NextCron]_vars

(***************************************************************************)
(* every_between(interval, start, end).  A datetime is a day number with   *)
(* the seconds since midnight, a datetime.time the seconds since midnight, *)
(* a timedelta a number of seconds; microseconds are dropped on entry.     *)
(***************************************************************************)
DaySeconds == 24 * 3600
Time(hour, minute, second) == hour * 3600 + minute * 60 + second
Datetime(day, t) == [day |-> day, sec |-> t]

\* dt + timedelta(seconds=n)
plus(dt, n) ==
    [day |-> dt.day + (dt.sec + n) \div DaySeconds, sec |-> (dt.sec + n) % DaySeconds]

\* dt1 < dt2
earlier(dt1, dt2) == dt1.day < dt2.day \/ (dt1.day = dt2.day /\ dt1.sec < dt2.sec)

\* huey.utils.to_timestamp: seconds since the epoch (day 0, midnight)
to_timestamp(dt) == dt.day * DaySeconds + dt.sec

\* combine(dt, t): dt.replace(hour, minute, second)
combine(dt, t) == [dt EXCEPT !.sec = t]

\* dt2 - dt1, in seconds
seconds_between(dt1, dt2) == (dt2.day - dt1.day) * DaySeconds + dt2.sec - dt1.sec

\* while s < timestamp: s += interval
\* The loop body runs once for every interval that starts before timestamp;
\* the passes are counted instead of being unrolled one by one.
catch_up(s, timestamp, interval) ==
    IF earlier(s, timestamp)
    THEN plus(s, ((seconds_between(s, timestamp) + interval - 1) \div interval) * interval)
    ELSE s

\* "while validate_date._next < ts": a loop that stops one pass early when
\* _next reaches ts exactly.
advance_short(next, ts, nsec) ==
    IF next < ts THEN next + ((ts - next + nsec - 1) \div nsec) * nsec ELSE next

\* while validate_date._next <= ts: validate_date._next += nsec
\* (the passes counted as in catch_up)
advance(next, ts, nsec) ==
    IF next <= ts THEN next + ((ts - next) \div nsec + 1) * nsec ELSE next

\* every_between's own part: defaults, and the swap of an inverted window.
every_between(interval, start, end) ==
    LET s == IF start = None THEN Time(0, 0, 0) ELSE start[1]
        e == IF end = None THEN Time(23, 59, 59) ELSE end[1]
    IN [built |-> TRUE, interval |-> interval,
        start |-> IF s > e THEN e ELSE s, end |-> IF s > e THEN s ELSE e,
        invert |-> s > e, next |-> None, asked |-> <<>>]

in_range(v, ts_time) ==
    IF v.invert THEN ts_time < v.start \/ ts_time >= v.end
    ELSE v.start <= ts_time /\ ts_time < v.end

\* The "if validate_date._next is None" block.
initial_next(v, timestamp) ==
    IF v.invert
    THEN LET s == combine(timestamp, v.end)
         IN to_timestamp(catch_up(IF timestamp.sec < v.start THEN plus(s, 0 - DaySeconds) ELSE s,
                                  timestamp, v.interval))
    ELSE to_timestamp(catch_up(combine(timestamp, v.start), timestamp, v.interval))

\* validate_date(timestamp) of every_between: the answer and the new _next.
every_validate_date(v, timestamp) ==
    IF ~in_range(v, timestamp.sec) THEN [result |-> FALSE, next |-> v.next]
    ELSE LET next == IF v.next = None THEN initial_next(v, timestamp) ELSE v.next[1]
             ts == to_timestamp(timestamp)
         IN IF next <= ts THEN [result |-> TRUE, next |-> Some(advance(next, ts, v.interval))]
            ELSE [result |-> FALSE, next |-> Some(next)]

(***************************************************************************)
(* A consumer that builds one predicate and asks it about the current time *)
(* again and again: the timestamps it passes never go back.                *)
(***************************************************************************)
Intervals == {Time(0, 5, 0), Time(0, 7, 0)}
WindowTimes == {None, Some(Time(9, 0, 0)), Some(Time(17, 0, 0))}
TimesOfDay == {Time(8, 59, 0), Time(9, 0, 0), Time(9, 4, 0), Time(9, 5, 0),
               Time(17, 0, 0)}
Instants == {Datetime(day, t) : day \in 0..MaxDay, t \in TimesOfDay}

InitEvery ==
    /\ Start({NoHooks}, {Build("work", None, 0, 0, FALSE, FALSE)})
    /\ results /\ ~store_none /\ ~immediate

\* validate = every_between(interval, start, end)
EveryBetween(interval, start, end) ==
    /\ every' = every_between(interval, start, end)
    /\ ret' = RetNone
    /\ op' = [name |-> "every_between", id |-> ""]
    /\ UNCHANGED <<Pure, cron>>

\* validate(timestamp)
ValidateEvery(timestamp) ==
    /\ LET r == every_validate_date(every, timestamp)
       IN /\ every' = [every EXCEPT !.next = r.next,
                                    !.asked = Append(@, [timestamp |-> timestamp,
                                                         result |-> r.result])]
          /\ ret' = [k |-> "bool", b |-> r.result]
    /\ op' = [name |-> "validate_date", id |-> "", timestamp |-> timestamp]
    /\ UNCHANGED <<Pure, cron>>

NextEvery ==
    \/ every = NoEvery /\ \E interval \in Intervals, start, end \in WindowTimes :
          EveryBetween(interval, start, end)
    \/ /\ every.built /\ Len(every.asked) < MaxQueries
       /\ \E timestamp \in Instants :
            /\ every.asked # <<>> =>
                  ~earlier(timestamp, every.asked[Len(every.asked)].timestamp)
            /\ ValidateEvery(timestamp)

SpecEvery == InitEvery /\ [][NextEvery]_vars

(***************************************************************************)
(* Protected regions that end: "with huey.lock_task(name): body", or a     *)
(* function decorated with the lock.  The body returns or raises; control  *)
(* leaves the with statement through __exit__ on both paths, and __exit__  *)
(* returns None, so an exception keeps propagating.                        *)
(***************************************************************************)
RegionOutcomes == {Return(PyNone), Return(Atom("v1")), Raise("Exception")}

\* A with statement that calls __exit__ only when the body returned.
with_exit_on_return(h, name, outcome) ==
    IF outcome.k = "return" THEN TaskLock_exit(h, name) ELSE h

\* Leaving "with self:" after the body ended in outcome.
with_exit(h, name, outcome) == TaskLock_exit(h, name)

\* The body of a region that worker w entered ends: TaskLock.__exit__ runs,
\* then the value is returned or the exception goes on to the caller.
Leave(w, name, outcome) ==
    /\ name \in held[w]
    /\ store' = with_exit(H0, name, outcome).store
    /\ held' = [held EXCEPT ![w] = @ \ {name}]
    /\ ret' = outcome
    /\ trace' = <<>>
    /\ op' = [name |-> "leave", id |-> name, w |-> w]
    /\ UNCHANGED <<Config, Locals, queue, schedule, now, enq, runs, dropped, revokes>>

NextScope ==
    \/ \E w \in Workers, name \in LockNames : Acquire(w, name)
    \/ \E w \in Workers, name \in LockNames, outcome \in RegionOutcomes :
          Leave(w, name, outcome)

SpecScope == InitLock /\ [][NextScope]_vars

(***************************************************************************)
(* A task that is revoked by id and by class at once, and asked about:     *)
(* huey.is_revoked(task, timestamp, peek) is what Result.is_revoked and    *)
(* execute call.  The producer and the revoker each get two calls more     *)
(* resp. one call more than the bounds give them elsewhere: two records,   *)
(* and three attempts on the task.                                         *)
(***************************************************************************)
InitRevoke == Start({NoHooks}, {Build("work", None, 0, 0, FALSE, FALSE)})

\* huey.is_revoked(task, now, peek)
IsRevoked(peek) ==
    /\ LET r == is_revoked(H0, tmpl, now, peek)
       IN /\ store' = r.h.store
          /\ ret' = [k |-> "bool", b |-> r.revoked]
    /\ trace' = <<>>
    /\ op' = [name |-> "is_revoked", id |-> tmpl.id, peek |-> peek]
    /\ UNCHANGED <<Config, Locals, queue, schedule, now, enq, runs, dropped, revokes, held>>

NextRevoke ==
    \/ Call(MaxEnq + 2)
    \/ Worker
    \/ Tick
    \/ \E u \in Untils, o \in BOOLEAN : RevokeUpTo(MaxRevokes + 1, u, o)
    \/ \E u \in Untils, o \in BOOLEAN : RevokeAllUpTo(MaxRevokes + 1, u, o)
    \/ \E peek \in BOOLEAN : IsRevoked(peek)

SpecRevoke == InitRevoke /\ [][NextRevoke]_vars

(***************************************************************************)
(* The dispatcher with a task that may end in any way on each run, over    *)
(* every retry budget, with and without a retry delay and an on_error      *)
(* continuation; and the same task, with one retry, on a dispatcher that   *)
(* has one pre-execute and one post-execute hook and stores results.       *)
(***************************************************************************)
RetryTemplates ==
    { Build("flaky", None, k, d, FALSE, oe) :
        k \in 0..MaxRetries, d \in {0, 1}, oe \in BOOLEAN }

InitRetry == Start({NoHooks}, RetryTemplates)

SpecRetry == InitRetry /\ [][Next]_vars

InitInterrupt ==
    /\ Start({<<"hook">>}, { t \in RetryTemplates : t.retries = 1 })
    /\ results

SpecInterrupt == InitInterrupt /\ [][Next]_vars

(***************************************************************************)
(* The consumer left to run for as long as there is work: one producer     *)
(* call, a task without retry delay whose body may end in any way on each  *)
(* run, and a worker that dequeues and executes whenever the queue is not  *)
(* empty (weak fairness: the consumer's loop never stops polling).  Runs   *)
(* are not counted here, so that a task can go round any number of times;  *)
(* the task has no on_error task, whose arguments would grow on the way.   *)
(***************************************************************************)
InitForever ==
    /\ Start({NoHooks}, { t \in RetryTemplates :
                            t.retry_delay = 0 /\ t.on_error = None })
    /\ ~immediate

\* Worker, without the count of runs.
WorkerForever ==
    /\ queue # <<>>
    /\ LET task == deserialize_task(Head(queue))
       IN /\ \E r \in execute([H0 EXCEPT !.queue = Tail(queue)], task, now) :
               /\ queue' = r.h.queue
               /\ schedule' = r.h.schedule
               /\ store' = r.h.store
               /\ trace' = r.h.trace
               /\ dropped' = r.h.dropped
               /\ ret' = r.ret
          /\ op' = [name |-> "execute", id |-> task.id]
    /\ UNCHANGED <<Config, Locals, now, enq, runs, revokes, held>>

NextForever ==
    \/ Enqueue
    \/ WorkerForever
    \/ \E p \in BOOLEAN : ResultGet(tmpl.id, p)

SpecForever == InitForever /\ [][NextForever]_vars /\ WF_vars(WorkerForever)

(***************************************************************************)
(* Properties.                                                             *)
(***************************************************************************)
\* The serialized tasks waiting in the broker: the queue, then the schedule.
Waiting == queue \o [i \in 1..Len(schedule) |-> schedule[i][2]]

\* The body runs still owed to the waiting copies of task id: a copy with
\* r retries left is good for r + 1 runs of a body that always fails.
RECURSIVE Budget(_, _)
Budget(s, id) ==
    IF s = <<>> THEN 0
    ELSE (IF deserialize(Head(s))[1] = id THEN deserialize(Head(s))[4] + 1 ELSE 0)
         + Budget(Tail(s), id)

\* The log entries of one run of task id that starts at entry i: up to the
\* next time the task is executed.
SegEnd(i, id) ==
    LET later == {j \in (i + 1)..Len(trace) :
                    trace[j].e = "EXECUTING" /\ trace[j].id = id}
    IN IF later = {} THEN Len(trace)
       ELSE (CHOOSE j \in later : \A m \in later : j <= m) - 1

\* The first entry after i that is an ENQUEUED signal (0 when there is none).
NextEnqueued(i) ==
    LET later == {j \in (i + 1)..Len(trace) : trace[j].e = "ENQUEUED"}
    IN IF later = {} THEN 0 ELSE CHOOSE j \in later : \A m \in later : j <= m

Failures == {"Exception", "TaskLockedException", "RetryTask"}

\* C1: a task with retries = k, retry_delay = 0 and a body that raises an
\* ordinary exception on every run runs k+1 times per enqueue: every run
\* uses up one unit of the budget (a requeue carries retries - 1), and once
\* no copy is waiting the Error record under its id carries retries = 0.
C1_RunsRetriesPlusOne ==
    (tmpl.name = "boom" /\ tmpl.retry_delay = 0 /\ dropped[tmpl.id] = 0) =>
        /\ runs[tmpl.id] + Budget(Waiting, tmpl.id) = enq * (tmpl.retries + 1)
        /\ \A i \in 1..Len(trace) :
             trace[i].e = "RETRYING" =>
                /\ i < Len(trace)
                /\ trace[i + 1].e = "ENQUEUED"
                /\ trace[i + 1].retries = trace[i].retries - 1
        /\ (Budget(Waiting, tmpl.id) = 0 /\ enq > 0 /\ store[tmpl.id] # EmptyData) =>
              store[tmpl.id] =
                  Some(serialize(Error([error |-> "Exception", retries |-> 0])))

C1_Witness ==
    /\ tmpl.name = "boom" /\ tmpl.retries = 2 /\ tmpl.retry_delay = 0
    /\ enq = 1 /\ runs[tmpl.id] = 3 /\ Budget(Waiting, tmpl.id) = 0
    /\ store[tmpl.id] = Some(serialize(Error([error |-> "Exception", retries |-> 0])))

\* C9: a body never runs before its eta.  Every body run logged happened
\* with eta absent or eta <= now; and an execute of a task whose eta is in the
\* future (by a worker, or by enqueue in immediate mode) only inserts the
\* task into the schedule under its eta and emits SCHEDULED.
C9_BodyNotEarly ==
    \A i \in 1..Len(trace) :
        trace[i].e = "body" => (trace[i].eta = None \/ trace[i].eta[1] <= now)

C9_ExecuteEarly ==
    /\ (op'.name = "execute" /\ ~ready_to_run(deserialize_task(Head(queue)), now)) =>
          LET task == deserialize_task(Head(queue))
          IN /\ trace' = <<Ev("SCHEDULED", task, 0, "", PyNone)>>
             /\ schedule' = add_to_schedule(H0, serialize_task(task), task.eta[1]).schedule
             /\ runs' = runs
             /\ store' = store
    /\ (op'.name = "enqueue" /\ immediate /\ ~ready_to_run(tmpl, now)) =>
          /\ trace' = <<Ev("ENQUEUED", tmpl, 0, "", PyNone),
                        Ev("SCHEDULED", tmpl, 0, "", PyNone)>>
          /\ schedule' = add_to_schedule(H0, serialize_task(tmpl), tmpl.eta[1]).schedule
          /\ runs' = runs
          /\ store' = store

C9_NeverBeforeEta == [](C9_BodyNotEarly) /\ [][C9_ExecuteEarly]_vars

C9_Witness ==
    /\ op.name = "execute" /\ Len(trace) = 1 /\ trace[1].e = "SCHEDULED"
    /\ trace[1].eta # None /\ trace[1].eta[1] > now
    /\ Len(schedule) > 0 /\ runs[tmpl.id] = 0

\* The last run of task id in the log (0 when its body did not run).
LastBody(id) ==
    LET bodies == {i \in 1..Len(trace) : trace[i].e = "body" /\ trace[i].id = id}
    IN IF bodies = {} THEN 0 ELSE CHOOSE i \in bodies : \A m \in bodies : m <= i

\* C4: after a successful run (results enabled, not a periodic task) the
\* non-null return value v is in the store under the task id; the first
\* non-preserving read of it by id returns v and removes the record, a
\* read that finds no record returns absent (None) and writes nothing, and
\* a preserving read returns v and leaves the record.
C4_StoredAfterSuccess ==
    LET i == LastBody(tmpl.id)
    IN (results /\ ~IsPeriodic(tmpl) /\ i > 0 /\ trace[i].k = "return"
        /\ trace[i].v # PyNone)
       => store[tmpl.id] = Some(serialize(trace[i].v))

C4_Read ==
    op'.name = "result" =>
        LET id == op'.id
            rec == store[id]
        IN /\ (rec # EmptyData /\ deserialize(rec[1]).t # "Error") =>
                 /\ ret' = RetValue(deserialize(rec[1]))
                 /\ store' = IF op'.preserve THEN store
                             ELSE [store EXCEPT ![id] = EmptyData]
           /\ rec = EmptyData => (ret' = RetValue(PyNone) /\ store' = store)

C4_ResultReadOnce == [](C4_StoredAfterSuccess) /\ [][C4_Read]_vars

\* The first non-preserving read after a run that returned "v1".
C4_Witness ==
    /\ op.name = "result" /\ ~op.preserve
    /\ ret = RetValue(Atom("v1"))
    /\ runs[tmpl.id] = 1 /\ results /\ ~IsPeriodic(tmpl)
    /\ store[tmpl.id] = EmptyData

\* The extend_data rule: a tuple is appended to args, a mapping is merged
\* into kwargs without overwriting, None and () change nothing, any other
\* value is appended to args.
MergedArgs(args, v) ==
    IF v.t = "tuple" THEN args \o v.a
    ELSE IF v.t \in {"atom", "exc"} THEN Append(args, v.a[1])
    ELSE args

MergedKwargs(kwargs, v) ==
    IF v.t = "dict"
    THEN kwargs \cup {kv \in v.d : \A p \in kwargs : p[1] # kv[1]}
    ELSE kwargs

\* C5: when the body of a task with an on_complete successor b returns v,
\* the run sends COMPLETE, writes its result record (when one is written:
\* results enabled, not periodic, v not None or store_none) and only then
\* enqueues b, once, with v merged into b's arguments; in queue mode b is
\* the message the run appends to the queue.
C5_ChainSuccess ==
    tmpl.on_complete # None =>
        \A i \in 1..Len(trace) :
            (trace[i].e = "body" /\ trace[i].id = tmpl.id /\ trace[i].k = "return") =>
                LET v == trace[i].v
                    b == tmpl.on_complete[1]
                    stored == results /\ ~IsPeriodic(tmpl) /\ (v # PyNone \/ store_none)
                    j == NextEnqueued(i)
                    last == SegEnd(i, tmpl.id)
                IN /\ j > i + 1
                   /\ trace[i + 1].e = "COMPLETE"
                   /\ stored => /\ j > i + 2
                                /\ trace[i + 2].e = "put" /\ trace[i + 2].id = tmpl.id
                                /\ trace[i + 2].v = v
                   /\ \A m \in (i + 1)..(j - 1) :
                         trace[m].id = tmpl.id
                         /\ trace[m].e \in {"COMPLETE", "put", "post_execute"}
                   /\ trace[j].id = b.id
                   /\ trace[j].args = MergedArgs(b.args, v)
                   /\ trace[j].kwargs = MergedKwargs(b.kwargs, v)
                   /\ Cardinality({m \in i..last : trace[m].e = "ENQUEUED"
                                                   /\ trace[m].id = b.id}) = 1
                   /\ \A m \in (j + 1)..last : ~(trace[m].e = "put" /\ trace[m].id = tmpl.id)
                   /\ ~immediate =>
                         /\ j = Len(trace)
                         /\ queue # <<>>
                         /\ LET queued == deserialize_task(queue[Len(queue)])
                            IN /\ queued.id = b.id
                               /\ queued.args = MergedArgs(b.args, v)
                               /\ queued.kwargs = MergedKwargs(b.kwargs, v)

\* The successor has run (immediate mode) with a mapping merged into its
\* keyword arguments, after the predecessor's record was put.
C5_Witness ==
    /\ immediate /\ results /\ tmpl.on_complete # None /\ Len(trace) >= 8
    /\ trace[3].e = "body" /\ trace[3].id = tmpl.id /\ trace[3].v.t = "dict"
    /\ trace[5].e = "put" /\ trace[5].id = tmpl.id
    /\ trace[6].e = "ENQUEUED" /\ trace[6].id = "b"
    /\ trace[6].kwargs = {<<"k", "own">>, <<"j", "v2">>}
    /\ trace[8].e = "body" /\ trace[8].id = "b"
    /\ store[tmpl.id] # EmptyData

\* C6: when the body of a task with an on_error successor e raises x, the
\* run enqueues e with x appended to its arguments, and never the
\* on_complete successor; when the body returns, no run of the task
\* enqueues e.
C6_ChainFailure ==
    \A i \in 1..Len(trace) :
        (trace[i].e = "body" /\ trace[i].id = tmpl.id) =>
            LET last == SegEnd(i, tmpl.id)
                j == NextEnqueued(i)
            IN /\ (trace[i].k \in Failures /\ tmpl.on_error # None) =>
                     /\ j > i /\ j <= last
                     /\ trace[j].id = tmpl.on_error[1].id
                     /\ trace[j].args # <<>>
                     /\ trace[j].args[Len(trace[j].args)] = trace[i].k
                     /\ trace[j].kwargs = tmpl.on_error[1].kwargs
               /\ (trace[i].k \in Failures /\ tmpl.on_complete # None) =>
                     \A m \in i..last :
                        ~(trace[m].e = "ENQUEUED" /\ trace[m].id = tmpl.on_complete[1].id)
               /\ (trace[i].k = "return" /\ tmpl.on_error # None) =>
                     \A m \in i..last :
                        ~(trace[m].e = "ENQUEUED" /\ trace[m].id = tmpl.on_error[1].id)

C6_Witness ==
    /\ ~immediate /\ tmpl.on_error # None /\ tmpl.on_complete # None
    /\ Len(trace) >= 3 /\ trace[2].e = "body" /\ trace[2].k = "Exception"
    /\ queue # <<>> /\ deserialize_task(queue[Len(queue)]).id = "e"
    /\ deserialize_task(queue[Len(queue)]).args = <<"Exception">>

\* C10 (as claimed): when the body raises TaskLocked, LOCKED is emitted and
\* ERROR is not, nothing is put in the result store under the task id, and
\* the task is requeued iff retries > 0.
C10_LockedStoresNothing ==
    \A i \in 1..Len(trace) :
        (trace[i].e = "body" /\ trace[i].k = "TaskLockedException") =>
            LET last == SegEnd(i, trace[i].id)
            IN /\ i < Len(trace) /\ trace[i + 1].e = "LOCKED"
               /\ \A m \in i..last :
                     ~(trace[m].id = trace[i].id /\ trace[m].e \in {"ERROR", "put"})
               /\ (trace[i].retries > 0) <=>
                     (\E m \in i..last : trace[m].e = "RETRYING" /\ trace[m].id = trace[i].id)

\* The execute attempts on task id in a log: every call of execute on a
\* task that is due ends its gate with REVOKED or EXECUTING.
Attempts(tr, id) ==
    {i \in 1..Len(tr) : tr[i].id = id /\ tr[i].e \in {"REVOKED", "EXECUTING"}}

First(S) == CHOOSE i \in S : \A m \in S : i <= m

\* The attempt at entry i passed the gate and ran the body: EXECUTING, the
\* pre-execute hooks, the body; a hook that cancels puts CANCELED there.
RunsBody(tr, i) ==
    /\ tr[i].e = "EXECUTING"
    /\ \E j \in (i + 1)..Len(tr) :
          /\ tr[j].id = tr[i].id
          /\ \A m \in (i + 1)..(j - 1) : tr[m].e = "pre_execute"
          /\ tr[j].e \in {"body", "CANCELED"}
          /\ pre_execute = <<>> => tr[j].e = "body"

\* The attempt at entry i was skipped: REVOKED, and nothing of the task runs
\* until the next attempt.
Skipped(tr, i, as) ==
    /\ tr[i].e = "REVOKED"
    /\ \A m \in (i + 1)..Len(tr) :
          (\A n \in as : n <= i \/ n > m) => ~(tr[m].id = tr[i].id /\ tr[m].e = "body")

\* The revocation record under a key: None, or Some(<<revoke_until, revoke_once>>).
Record(key) == IF store[key] = EmptyData THEN None ELSE Some(deserialize(store[key][1]))

\* C2: one-shot revocation.  With a revoke_once record on the task and no
\* record on its class, a step's first execute attempt on the (due) task
\* is skipped: REVOKED, no body, and the record is deleted; every attempt
\* that finds no record passes the gate and runs the body (unless a
\* pre-execute hook cancels it), and only a revoke call writes the record:
\* so the attempt after the skipped one runs.
C2_Step ==
    LET rid == revoke_id(tmpl)
        as == Attempts(trace', tmpl.id)
    IN /\ (as # {} /\ Record(task_key(tmpl.name)) = None
           /\ Record(rid) # None /\ Record(rid)[1][2]) =>
             /\ Skipped(trace', First(as), as)
             /\ store'[rid] = EmptyData
             /\ \A i \in as \ {First(as)} : RunsBody(trace', i)
             /\ as = {First(as)} => runs' = runs
       /\ (as # {} /\ Record(task_key(tmpl.name)) = None /\ Record(rid) = None) =>
             /\ \A i \in as : RunsBody(trace', i)
             /\ store'[rid] = EmptyData
       /\ (revokes' = revokes /\ Record(rid) = None) => store'[rid] = EmptyData

C2_OneShotRevocation == [][C2_Step]_vars

\* One call of read_schedule in immediate mode executes two due copies of
\* the task: the first is skipped, the second runs.
C2_Witness ==
    /\ op.name = "read_schedule" /\ immediate /\ pre_execute = <<>>
    /\ Len(trace) >= 5
    /\ trace[2].e = "REVOKED" /\ trace[2].id = tmpl.id
    /\ trace[4].e = "EXECUTING" /\ trace[4].id = tmpl.id
    /\ trace[5].e = "body"
    /\ store[revoke_id(tmpl)] = EmptyData
    /\ dropped[tmpl.id] = 1 /\ runs[tmpl.id] >= 1

\* C3: expiring revocation.  With a record (ts, revoke_once false) on the
\* task and no record on its class, every execute attempt on the (due) task
\* at now < ts is skipped and leaves the record in place; an attempt at
\* now >= ts passes the gate, runs the body (unless a pre-execute hook
\* cancels it) and deletes the record.
C3_Step ==
    LET rid == revoke_id(tmpl)
        as == Attempts(trace', tmpl.id)
    IN (as # {} /\ Record(task_key(tmpl.name)) = None
        /\ Record(rid) # None /\ ~Record(rid)[1][2] /\ Record(rid)[1][1] # None) =>
          LET ts == Record(rid)[1][1][1]
          IN /\ now < ts =>
                  /\ \A i \in as : Skipped(trace', i, as)
                  /\ store'[rid] = store[rid]
                  /\ runs' = runs
             /\ now >= ts =>
                  /\ \A i \in as : RunsBody(trace', i)
                  /\ store'[rid] = EmptyData

C3_ExpiringRevocation == [][C3_Step]_vars

\* A worker's attempt before the expiry: skipped, the record still there.
C3_Witness ==
    /\ op.name = "execute" /\ Len(trace) = 1 /\ trace[1].e = "REVOKED"
    /\ trace[1].id = tmpl.id
    /\ Record(revoke_id(tmpl)) = Some(<<Some(1), FALSE>>)
    /\ Record(task_key(tmpl.name)) = None
    /\ now < 1 /\ dropped[tmpl.id] = 1 /\ runs[tmpl.id] = 0

\* What a non-blocking get on the task's Result returns once the step is over.
ResultAfter == Result_get([H0 EXCEPT !.store = store'], tmpl.id, FALSE).ret

LastBodyNext ==
    LET bodies == {i \in 1..Len(trace') : trace'[i].e = "body" /\ trace'[i].id = tmpl.id}
    IN IF bodies = {} THEN 0 ELSE CHOOSE i \in bodies : \A m \in bodies : m <= i

\* C8 (as claimed): every enqueue in immediate mode has run the body by the
\* time it returns, and a non-blocking get on the Result it returned gives
\* the value the body returned.
C8_EnqueueStep ==
    (op'.name = "enqueue" /\ immediate) =>
        /\ runs'[tmpl.id] > runs[tmpl.id]
        /\ LastBodyNext > 0
        /\ (results /\ trace'[LastBodyNext].k = "return") =>
              ResultAfter = RetValue(trace'[LastBodyNext].v)

C8_AmendedStep ==
    (op'.name = "enqueue" /\ immediate) =>
        LET due == ready_to_run(tmpl, now)
            revoked == is_revoked(H0, tmpl, now, TRUE).revoked
            cancelled == \E m \in 1..Len(trace') :
                            /\ trace'[m].e = "CANCELED"
                            /\ \A j \in 1..m : trace'[j].e # "body"
        IN /\ Len(trace') >= 2 /\ trace'[1].e = "ENQUEUED"
           /\ trace'[2].e = IF ~due THEN "SCHEDULED"
                            ELSE IF revoked THEN "REVOKED" ELSE "EXECUTING"
           /\ (due /\ ~revoked /\ ~cancelled) =>
                 /\ runs'[tmpl.id] > runs[tmpl.id]
                 /\ LastBodyNext > 0
           /\ (~due \/ revoked) => (runs' = runs /\ LastBodyNext = 0)
           /\ (LastBodyNext > 0 /\ results /\ ~IsPeriodic(tmpl)
               /\ trace'[LastBodyNext].k = "return"
               /\ \/ trace'[LastBodyNext].v # PyNone
                  \/ store_none
                  \/ (store[tmpl.id] = EmptyData /\ runs'[tmpl.id] = runs[tmpl.id] + 1)) =>
                 ResultAfter = RetValue(trace'[LastBodyNext].v)

Holders(name) == {w \in Workers : name \in held[w]}

\* C7: lock mutual exclusion.  At most one worker is inside the region of a
\* lock name, and the key is in the store exactly while one is; an acquire
\* raises TaskLocked exactly when the lock is held (so of two acquires of a
\* free lock, in either order, the first wins and the second raises), and
\* an acquire that raises leaves the winner's key and region alone.
C7_AtMostOne ==
    \A name \in LockNames :
        /\ Cardinality(Holders(name)) <= 1
        /\ (store[lock_key(name)] # EmptyData) <=> (Holders(name) # {})

C7_AcquireStep ==
    op'.name = "acquire" =>
        LET name == op'.id
        IN /\ (ret' = [k |-> "TaskLockedException"]) <=> (Holders(name) # {})
           /\ ret' = [k |-> "TaskLockedException"] => (store' = store /\ held' = held)
           /\ ret' = RetNone =>
                 /\ held' = [held EXCEPT ![op'.w] = @ \cup {name}]
                 /\ store'[lock_key(name)] # EmptyData

C7_MutualExclusion == [](C7_AtMostOne) /\ [][C7_AcquireStep]_vars

\* A second worker's acquire has just raised while the first holds the lock.
C7_Witness ==
    /\ op.name = "acquire" /\ ret = [k |-> "TaskLockedException"]
    /\ Holders(op.id) # {} /\ op.w \notin Holders(op.id)
    /\ store[lock_key(op.id)] # EmptyData

\* C11: nothing is ever written to the result store under the id of a
\* periodic task: whatever its body did and whatever the settings, no
\* operation puts a record under the id and the store holds none.
C11_PeriodicStoresNothing ==
    IsPeriodic(tmpl) =>
        /\ store[tmpl.id] = EmptyData
        /\ \A i \in 1..Len(trace) : ~(trace[i].e = "put" /\ trace[i].id = tmpl.id)

\* A periodic task's body has just returned a value, with results enabled.
C11_Witness ==
    /\ IsPeriodic(tmpl) /\ results
    /\ LastBody(tmpl.id) > 0
    /\ trace[LastBody(tmpl.id)].k = "return"
    /\ trace[LastBody(tmpl.id)].v = Atom("v1")
    /\ store[tmpl.id] = EmptyData

\* The workers whose check read a one-shot record of the task.
SawOnce == {w \in Workers : chk[w].pc # "idle" /\ chk[w].once}

\* C12: revocation race.  Every worker whose non-peek check read the
\* one-shot record treats the task as revoked (it never goes on to the
\* class record or to the body); once all of them have finished, with no
\* revoke call since they read, the record is absent; and a delete that
\* finds the record already deleted changes nothing.
C12_BothRevoked ==
    /\ \A w \in SawOnce :
          /\ chk[w].pc \in {"restore", "done"}
          /\ chk[w].pc = "done" => chk[w].verdict = "revoked"
    /\ (SawOnce # {} /\ \A w \in SawOnce : chk[w].pc = "done" /\ chk[w].at = revokes)
          => store[revoke_id(tmpl)] = EmptyData

C12_SecondDelete ==
    (op'.name = "check" /\ ret' = [k |-> "restored", was |-> FALSE]) => store' = store

C12_RevocationRace == [](C12_BothRevoked) /\ [][C12_SecondDelete]_vars

\* Two workers read the record before either deleted it; the second one's
\* delete found nothing; both have finished.
C12_Witness ==
    /\ Cardinality(SawOnce) >= 2
    /\ \A w \in SawOnce : chk[w].pc = "done" /\ chk[w].verdict = "revoked"
    /\ op.name = "check" /\ ret = [k |-> "restored", was |-> FALSE]
    /\ store[revoke_id(tmpl)] = EmptyData

\* C13: a run whose body raises RetryTask is requeued exactly once:
\* RETRYING is emitted once for the run, and the copy that is enqueued (or
\* scheduled, with a retry_delay) right after carries retries - 1, which is
\* 0 when the task had no retries left (retries is first set to 1); the
\* run emits neither ERROR nor COMPLETE.
C13_RetryTaskRequeues ==
    \A i \in 1..Len(trace) :
        (trace[i].e = "body" /\ trace[i].k = "RetryTask") =>
            LET id == trace[i].id
                last == SegEnd(i, id)
                retrying == {m \in i..last : trace[m].e = "RETRYING" /\ trace[m].id = id}
                budget == IF trace[i].retries = 0 THEN 1 ELSE trace[i].retries
            IN /\ Cardinality(retrying) = 1
               /\ \A m \in retrying :
                     /\ trace[m].retries = budget
                     /\ m < Len(trace)
                     /\ trace[m + 1].id = id
                     /\ trace[m + 1].e =
                           IF tmpl.retry_delay # 0 THEN "SCHEDULED" ELSE "ENQUEUED"
                     /\ trace[m + 1].retries = budget - 1
               /\ \A m \in i..last :
                     ~(trace[m].id = id /\ trace[m].e \in {"ERROR", "COMPLETE"})

\* A task without retries raised RetryTask and was requeued with retries = 0.
C13_Witness ==
    /\ tmpl.retries = 0 /\ tmpl.retry_delay = 0 /\ ~immediate
    /\ Len(trace) >= 2
    /\ trace[Len(trace) - 1].e = "RETRYING" /\ trace[Len(trace) - 1].retries = 1
    /\ trace[Len(trace)].e = "ENQUEUED" /\ trace[Len(trace)].retries = 0
    /\ \E i \in 1..Len(trace) : trace[i].e = "body" /\ trace[i].k = "RetryTask"
                                /\ trace[i].retries = 0
    /\ queue # <<>> /\ deserialize_task(queue[Len(queue)]).retries = 0

\* The EXECUTING entry of the attempt that entry j belongs to.
AttemptOf(j) ==
    LET before == {i \in 1..j : trace[i].e = "EXECUTING" /\ trace[i].id = trace[j].id}
    IN IF before = {} THEN 0 ELSE CHOOSE i \in before : \A m \in before : m <= i

\* C14: when a pre-execute hook raises CancelExecution, CANCELED is
\* emitted right after that hook: the hooks before it ran in registration
\* order, and nothing else of the attempt happens: no later hook, no body,
\* no put, no post-execute hook, no signal, no continuation enqueued, no
\* RETRYING and no requeue, whatever the task's retries.  (An ENQUEUED of
\* the task that follows is another caller's: a requeue starts with RETRYING.)
C14_Cancelled ==
    \A j \in 1..Len(trace) :
        trace[j].e = "CANCELED" =>
            LET id == trace[j].id
                i == AttemptOf(j)
                last == SegEnd(j, id)
            IN /\ i > 0 /\ j > i + 1 /\ j - i - 1 <= Len(pre_execute)
               /\ \A m \in (i + 1)..(j - 1) :
                     /\ trace[m].e = "pre_execute" /\ trace[m].id = id
                     /\ trace[m].n = m - i
                     /\ (trace[m].k = "CancelExecution") <=> (m = j - 1)
               /\ \A m \in (j + 1)..last :
                     /\ trace[m].id = id => trace[m].e = "ENQUEUED"
                     /\ (id = tmpl.id /\ trace[m].e = "ENQUEUED") =>
                           /\ tmpl.on_complete # None => trace[m].id # tmpl.on_complete[1].id
                           /\ tmpl.on_error # None => trace[m].id # tmpl.on_error[1].id

\* A worker's attempt that ends cancelled leaves the store, the schedule
\* and the run counts as they were, and puts nothing back on the queue.
C14_CancelledStep ==
    (op'.name = "execute" /\ trace' # <<>> /\ trace'[Len(trace')].e = "CANCELED") =>
        /\ store' = store
        /\ schedule' = schedule
        /\ queue' = Tail(queue)
        /\ runs' = runs

C14_CancelStopsEverything == [](C14_Cancelled) /\ [][C14_CancelledStep]_vars

\* The first of two hooks cancelled a task that has a retry left and both
\* continuations.
C14_Witness ==
    /\ Len(pre_execute) >= 2 /\ tmpl.retries > 0
    /\ tmpl.on_complete # None /\ tmpl.on_error # None
    /\ op.name = "execute" /\ Len(trace) = 3
    /\ trace[1].e = "EXECUTING" /\ trace[3].e = "CANCELED"
    /\ trace[2].e = "pre_execute" /\ trace[2].n = 1 /\ trace[2].k = "CancelExecution"
    /\ queue = <<>> /\ schedule = <<>> /\ runs[tmpl.id] = 0

\* C15: a blocking Result.get whose timeout has elapsed with no result
\* raises DataStoreTimeout; before that it has written the task's
\* revocation record iff revoke_on_timeout is set, and nothing otherwise.
C15_TimeoutStep ==
    (poll.pc = "polling" /\ poll'.pc = "done" /\ poll.result = EmptyData) =>
        /\ poll.timeout # 0 /\ now - poll.start >= poll.timeout
        /\ ret' = [k |-> "DataStoreTimeout"]
        /\ store' = IF poll.revoke_on_timeout
                    THEN [store EXCEPT ![revoke_id(tmpl)] = Some(serialize(<<None, TRUE>>))]
                    ELSE store

C15_TimeoutRaisesDataStoreTimeout == [][C15_TimeoutStep]_vars

\* What the timeout does apart from the exception's class.
C15_TimeoutWrites ==
    [][(poll.pc = "polling" /\ poll'.pc = "done" /\ poll.result = EmptyData) =>
          /\ poll.timeout # 0 /\ now - poll.start >= poll.timeout
          /\ ret'.k = "NameError"
          /\ store' = IF poll.revoke_on_timeout
                      THEN [store EXCEPT ![revoke_id(tmpl)] = Some(serialize(<<None, TRUE>>))]
                      ELSE store]_vars

\* The values a timestamp's component can take: its field's domain.
Domain(date_str) ==
    IF date_str = "w" THEN Weekdays
    ELSE Acceptable(date_str).lo..Acceptable(date_str).hi

\* A timestamp whose i-th component is x, the others at the first value of
\* their domain (which every other argument of the call accepts).
TimestampAt(i, x) ==
    LET pick(j) == IF j = i THEN x
                   ELSE CHOOSE y \in Domain(Fields[j]) : \A z \in Domain(Fields[j]) : y <= z
    IN [month |-> pick(1), day |-> pick(2), weekday |-> (pick(3) + 6) % 7,
        hour |-> pick(4), minute |-> pick(5)]

\* The values of the i-th component that the built predicate accepts.
AcceptedBy(i) ==
    {x \in Domain(Fields[i]) : validate_date(cron.cron_settings, TimestampAt(i, x))}

\* The argument under study is the day-of-week, and 7 is written in it.
Writes7(p) == (p.f = "int" /\ p.a = 7) \/ (p.f = "range" /\ (p.a = 7 \/ p.b = 7))
DayOfWeek7 ==
    /\ cron.field # 0 /\ Fields[cron.field] = "w"
    /\ \E k \in 1..Len(cron.value) : Writes7(cron.value[k])

\* C16: a predicate built with 7 in the day-of-week argument, as a single
\* integer, as a list item or as an endpoint of a range, accepts a Sunday.
C16_SevenIsSunday ==
    DayOfWeek7 => cron.built /\ 0 \in AcceptedBy(cron.field)

\* The same for 7 written as an integer, alone or as an item of a list.
C16_SevenAsInteger ==
    (/\ cron.field # 0 /\ Fields[cron.field] = "w"
     /\ \E k \in 1..Len(cron.value) : cron.value[k] = Number(7)
     /\ \A k \in 1..Len(cron.value) : cron.value[k].f # "step")
        => cron.built /\ 0 \in AcceptedBy(cron.field)

\* The set a piece stands for, over the domain of its field.
Enumerated(p, date_str) ==
    LET D == Domain(date_str)
        first == CHOOSE y \in D : \A z \in D : y <= z
    IN CASE p.f = "star" -> D
         [] p.f = "int" -> {p.a}
         [] p.f = "range" -> p.a..p.b
         [] p.f = "step" -> {x \in D : \E k \in 0..x : x = first + k * p.a}

\* The set each argument of the call stands for.
Expected(i) ==
    IF i = cron.field
    THEN UNION {Enumerated(cron.value[k], Fields[i]) : k \in 1..Len(cron.value)}
    ELSE IF cron.rest THEN {Acceptable(Fields[i]).lo} ELSE Domain(Fields[i])

\* crontab was called, with numbers of the field's domain.
CronCalled ==
    /\ cron.field # 0
    /\ Fields[cron.field] = "w" => ~DayOfWeek7

StepOnDayOfWeek ==
    /\ Fields[cron.field] = "w"
    /\ \E k \in 1..Len(cron.value) : cron.value[k].f = "step"

\* C17: whatever the field and the form, the predicate accepts exactly the
\* enumerated set over the field's domain, and a timestamp matches iff all
\* five of its components are in their sets; a step on day-of-week is
\* rejected with ValueError when the predicate is built.
C17_FieldForms ==
    CronCalled =>
        /\ StepOnDayOfWeek <=> cron.error = "ValueError"
        /\ ~StepOnDayOfWeek <=> cron.built
        /\ (cron.built /\ op.name = "crontab") =>
              AcceptedBy(cron.field) = Expected(cron.field)
        /\ op.name = "validate_date" =>
              LET t == op.timestamp
                  pieces == <<t.month, t.day, (t.weekday + 1) % 7, t.hour, t.minute>>
              IN ret.b <=> \A i \in 1..Len(Fields) : pieces[i] \in Expected(i)

\* minute = '*/15' matches minute 15, and the minutes accepted are 0, 15, 30, 45.
C17_Witness ==
    /\ cron.built /\ cron.field = 5 /\ cron.value = <<Step(15)>>
    /\ AcceptedBy(5) = {0, 15, 30, 45}
    /\ op.name = "validate_date" /\ op.timestamp.minute = 15 /\ ret.b

\* A step on day-of-week was rejected.
C17_Rejected ==
    /\ cron.field = 3 /\ cron.value = <<Step(2)>> /\ cron.error = "ValueError"

\* x is the first of the instants base, base + step, base + 2 * step, ...
\* that is at or after q; x is the first of them that is after q.
IsFirstAtOrAfter(x, base, step, q) ==
    x >= base /\ (x - base) % step = 0 /\ x >= q /\ (x = base \/ x - step < q)
IsFirstAfter(x, base, step, q) ==
    x >= base /\ (x - base) % step = 0 /\ x > q /\ (x = base \/ x - step <= q)

\* C18: a fixed-interval predicate with a window [start, end) that is not
\* inverted, asked at timestamps that never go back.  Outside the window it
\* answers false and leaves the memoized next instant alone.  Inside, the
\* memoized instant (on the first in-window question: the first instant
\* start + k * interval at or after the question) is compared with the
\* question: the answer is true iff it is not later, and a true answer moves
\* it by whole intervals to the first instant after the question.
C18_Query ==
    (every.built /\ ~every.invert /\ Len(every'.asked) = Len(every.asked) + 1) =>
        LET t == every'.asked[Len(every'.asked)].timestamp
            q == t.day * DaySeconds + t.sec
            answer == every'.asked[Len(every'.asked)].result
            base == t.day * DaySeconds + every.start
        IN /\ ret' = [k |-> "bool", b |-> answer]
           /\ IF t.sec < every.start \/ t.sec >= every.end
              THEN ~answer /\ every'.next = every.next
              ELSE /\ every'.next # None
                   /\ \E memo \in (IF every.next # None THEN {every.next[1]}
                                   ELSE {q, every'.next[1]}) :
                        /\ every.next = None => IsFirstAtOrAfter(memo, base, every.interval, q)
                        /\ answer <=> memo <= q
                        /\ IF answer
                           THEN IsFirstAfter(every'.next[1], memo, every.interval, q)
                           ELSE every'.next[1] = memo

C18_FixedInterval == [][C18_Query]_vars

\* Every 5 minutes between 09:00 and 17:00, asked at 08:59, 09:00, 09:04,
\* 09:05 and 17:00 of one day: false, true, false, true, false.
C18_Witness ==
    /\ every.built /\ ~every.invert /\ every.interval = Time(0, 5, 0)
    /\ every.start = Time(9, 0, 0) /\ every.end = Time(17, 0, 0)
    /\ every.asked =
         << [timestamp |-> Datetime(0, Time(8, 59, 0)), result |-> FALSE],
            [timestamp |-> Datetime(0, Time(9, 0, 0)), result |-> TRUE],
            [timestamp |-> Datetime(0, Time(9, 4, 0)), result |-> FALSE],
            [timestamp |-> Datetime(0, Time(9, 5, 0)), result |-> TRUE],
            [timestamp |-> Datetime(0, Time(17, 0, 0)), result |-> FALSE] >>

\* C19: when a region that was entered under a lock ends, by returning or
\* by raising, the lock's key is deleted, and the next acquire of the name
\* succeeds; an acquire that fails with TaskLockedException releases nothing.
C19_LeaveStep ==
    op'.name = "leave" =>
        /\ store'[lock_key(op'.id)] = EmptyData
        /\ \A k \in Keys \ {lock_key(op'.id)} : store'[k] = store[k]
        /\ ~TaskLock_enter([H0 EXCEPT !.store = store'], op'.id).raised
        /\ ret' \in RegionOutcomes

C19_FailedAcquireStep ==
    (op'.name = "acquire" /\ ret' = [k |-> "TaskLockedException"]) =>
        /\ store' = store /\ store'[lock_key(op'.id)] # EmptyData
        /\ held' = held

C19_ScopedRelease == [][C19_LeaveStep /\ C19_FailedAcquireStep]_vars

\* A region has just ended by raising while another lock stays held: its
\* key is gone, the other one is not.
C19_Witness ==
    /\ op.name = "leave" /\ ret = Raise("Exception")
    /\ store[lock_key(op.id)] = EmptyData /\ op.id \notin held[op.w]
    /\ \E name \in LockNames \ {op.id} : store[lock_key(name)] # EmptyData

\* What a call of execute emits to tell which way it went.
Verdicts == {"SCHEDULED", "REVOKED", "EXECUTING"}

\* In a log, the entries that are the verdict of a call of execute: a
\* SCHEDULED right after RETRYING is _requeue_task's, not execute's.
VerdictsIn(tr) ==
    {j \in 1..Len(tr) :
        /\ tr[j].e \in Verdicts
        /\ tr[j].e = "SCHEDULED" =>
              ~(j > 1 /\ tr[j - 1].e = "RETRYING" /\ tr[j - 1].id = tr[j].id)}

\* Where the calls of execute start in the log of a step: the worker's call
\* at the first entry, the calls that enqueue makes in immediate mode right
\* after its ENQUEUED.
ExecuteCalls(tr, name) ==
    (IF name = "execute" THEN {1} ELSE {})
        \cup (IF immediate THEN {j + 1 : j \in {m \in 1..Len(tr) : tr[m].e = "ENQUEUED"}}
              ELSE {})

\* C20: a call of execute emits exactly one of SCHEDULED, REVOKED and
\* EXECUTING, and it is the first thing it does.  The eta is tested first:
\* a task whose eta is in the future gets SCHEDULED, it goes to the schedule
\* and the store is left as it was, revocation records included; a due task
\* gets REVOKED (there is a record then) or EXECUTING, and a body runs only
\* after the EXECUTING of its call (and the pre-execute hooks).  What a call
\* leaves unchanged is stated for the steps that make a single call.
C20_ExecuteStep ==
    LET tr == trace'
        calls == ExecuteCalls(tr, op'.name)
    IN /\ VerdictsIn(tr) = calls
       /\ \A i \in calls :
            /\ i > 1 => tr[i].id = tr[i - 1].id
            /\ (tr[i].eta # None /\ tr[i].eta[1] > now) <=> tr[i].e = "SCHEDULED"
       /\ \A i \in calls :
            (calls = {i} /\ tr[i].e \in {"SCHEDULED", "REVOKED"}) =>
                /\ Len(tr) = i /\ runs' = runs
                /\ tr[i].e = "SCHEDULED" =>
                      /\ store' = store
                      /\ \E k \in 1..Len(schedule') : schedule'[k][1] = tr[i].eta[1]
                      /\ Len(schedule') = Len(schedule) + 1
                /\ tr[i].e = "REVOKED" =>
                      \/ Record("r:" \o tr[i].id) # None
                      \/ \E c \in TaskClasses : Record(task_key(c)) # None
       /\ \A j \in 1..Len(tr) :
            tr[j].e = "body" =>
                \E i \in calls :
                    /\ i < j /\ tr[i].e = "EXECUTING" /\ tr[i].id = tr[j].id
                    /\ \A m \in (i + 1)..(j - 1) :
                          tr[m].e = "pre_execute" /\ tr[m].id = tr[j].id

C20_OneVerdict == [][C20_ExecuteStep]_vars

\* A worker executed a task whose eta is in the future while a one-shot
\* revocation of the task was on record: SCHEDULED, and the record is there.
C20_Witness ==
    /\ op.name = "execute" /\ op.id = tmpl.id
    /\ Len(trace) = 1 /\ trace[1].e = "SCHEDULED"
    /\ Record(revoke_id(tmpl)) # None /\ Record(revoke_id(tmpl))[1][2]

\* A revocation record rec (None, or Some(<<revoke_until, revoke_once>>))
\* revokes at time t: it is one-shot, or permanent, or not yet expired.
Revokes(rec, t) ==
    rec # None /\ (rec[1][2] \/ rec[1][1] = None \/ rec[1][1][1] > t)

\* A non-peek check that looks at the record deletes it: one-shot, or expired.
Spent(rec, t) == rec # None /\ (rec[1][2] \/ ~Revokes(rec, t))

\* C21: is_revoked with peek=True leaves every revocation record as it is,
\* one-shot, expired, unexpired or permanent, on the task or on its class,
\* and its verdict is the verdict of a check without peek at the same
\* instant: the task's record revokes, or its class's record does.
C21_PeekStep ==
    op'.name = "is_revoked" =>
        /\ ret'.b <=> (Revokes(Record(revoke_id(tmpl)), now)
                        \/ Revokes(Record(task_key(tmpl.name)), now))
        /\ op'.peek => store' = store

C21_PeekChangesNothing == [][C21_PeekStep]_vars

\* A peek has just answered "revoked" on a one-shot record of the task
\* while an expired record sits on the class: both are still there.
C21_Witness ==
    /\ op.name = "is_revoked" /\ op.peek /\ ret.b
    /\ Record(revoke_id(tmpl)) # None /\ Record(revoke_id(tmpl))[1][2]
    /\ Record(task_key(tmpl.name)) # None
    /\ ~Revokes(Record(task_key(tmpl.name)), now)

\* The record under a key of a store s.
RecordOf(s, key) == IF s[key] = EmptyData THEN None ELSE Some(deserialize(s[key][1]))

\* What a check without peek leaves of a record it looks at.
Checked(rec, t) == IF Spent(rec, t) THEN None ELSE rec

\* C22: an execute attempt on a task skips it iff the task's record revokes
\* it or its class's record does.  The task's record is checked first (and
\* deleted when one-shot or expired); the class's record is looked at, and
\* deleted when one-shot or expired, only if the task's does not revoke.
C22_AttemptStep ==
    LET inst == Record(revoke_id(tmpl))
        cls == Record(task_key(tmpl.name))
        verdicts == {i \in 1..Len(trace') : trace'[i].e \in {"REVOKED", "EXECUTING"}}
    IN verdicts # {} =>
        /\ Cardinality(verdicts) = 1
        /\ (\E i \in verdicts : trace'[i].e = "REVOKED")
              <=> (Revokes(inst, now) \/ Revokes(cls, now))
        /\ (\E i \in verdicts : trace'[i].e = "REVOKED")
              <=> (dropped'[tmpl.id] = dropped[tmpl.id] + 1 /\ runs' = runs)
        /\ RecordOf(store', revoke_id(tmpl)) = Checked(inst, now)
        /\ RecordOf(store', task_key(tmpl.name)) =
              IF Revokes(inst, now) THEN cls ELSE Checked(cls, now)

C22_InstanceThenClass == [][C22_AttemptStep]_vars

\* The first of the three attempts has just skipped the task on its own
\* one-shot record, now gone, and the class's one-shot record is still there.
C22_Witness ==
    /\ revokes = 2 /\ dropped[tmpl.id] = 1 /\ runs[tmpl.id] = 0
    /\ \E i \in 1..Len(trace) : trace[i].e = "REVOKED"
    /\ Record(revoke_id(tmpl)) = None
    /\ Record(task_key(tmpl.name)) = Some(<<None, TRUE>>)

\* The third attempt: skipped twice, both records gone, the body has run.
C22_ThirdAttemptRuns ==
    /\ revokes = 2 /\ dropped[tmpl.id] = 2 /\ runs[tmpl.id] = 1
    /\ \E i \in 1..Len(trace) : trace[i].e = "body"
    /\ Record(revoke_id(tmpl)) = None
    /\ Record(task_key(tmpl.name)) = None

\* The entries of a log that are runs of a body the interrupt ended.
Interrupted(tr) ==
    {j \in 1..Len(tr) : tr[j].e = "body" /\ tr[j].k = "KeyboardInterrupt"}

\* C23: a run that KeyboardInterrupt ends is the end of its execution:
\* nothing is stored, no post-execute hook runs, no continuation is
\* enqueued, and the task is not requeued (no RETRYING, no copy in the queue
\* or the schedule), retries left or not.  What follows in the same step,
\* if anything, is the scheduler enqueueing the next due task.
C23_InterruptStep ==
    \A j \in Interrupted(trace') :
        /\ j < Len(trace') =>
              /\ op'.name = "read_schedule"
              /\ trace'[j + 1].e = "ENQUEUED" /\ trace'[j + 1].id = tmpl.id
        /\ \A m \in (j + 1)..Len(trace') :
              (\/ trace'[m].e \in {"put", "post_execute", "RETRYING", "SCHEDULED"}
               \/ trace'[m].id # tmpl.id)
              => \E n \in (j + 1)..m : trace'[n].e = "body"
        /\ {m \in 1..Len(trace') : trace'[m].e = "body"} = {j} =>
              /\ store' = store
              /\ op'.name = "execute" => queue' = Tail(queue) /\ schedule' = schedule
              /\ op'.name = "enqueue" => queue' = queue /\ schedule' = schedule

C23_InterruptLeavesNothing == [][C23_InterruptStep]_vars

\* A worker's run of a task with a retry left, an on_error continuation and
\* a post-execute hook has just been interrupted.
C23_Witness ==
    /\ op.name = "execute" /\ Interrupted(trace) = {Len(trace)}
    /\ tmpl.retries > 0 /\ tmpl.on_error # None /\ post_execute # <<>> /\ results
    /\ Waiting = <<>> /\ store[tmpl.id] = EmptyData

\* The runs of task id in the log, and the entry the run at i ends before:
\* the task's next run, or the end of the log.
Bodies(id) == {i \in 1..Len(trace) : trace[i].e = "body" /\ trace[i].id = id}

RunEnd(i, id) ==
    IF \E j \in Bodies(id) : j > i
    THEN CHOOSE j \in Bodies(id) : j > i /\ \A m \in Bodies(id) : m > i => j <= m
    ELSE Len(trace) + 1

\* The retries of the task when _execute decides about the retry: what the
\* run started with, or 1 when RetryTask found 0.
RetriesAtCheck(i) ==
    IF trace[i].k = "RetryTask" /\ trace[i].retries = 0 THEN 1 ELSE trace[i].retries

\* The run logged at i ended in an exception _execute keeps, with retries left.
Requeues(i) == trace[i].k \in Failures /\ RetriesAtCheck(i) > 0

\* How many messages of a sequence are copies of task id.
Copies(s, id) == Cardinality({i \in 1..Len(s) : deserialize(s[i])[1] = id})

\* C24, in the log: a run that raised with retries left sends RETRYING once
\* and is placed once, right after it and with one retry less: SCHEDULED with
\* eta = now + retry_delay when retry_delay > 0 (and the step does not run
\* it), ENQUEUED when retry_delay = 0.  A run with no retries left, or that
\* returned, sends no RETRYING.  No run of the task starts before the eta
\* its copy carries.
C24_Log ==
    /\ \A i \in Bodies(tmpl.id) : trace[i].eta # None => trace[i].eta[1] <= now
    /\ \A m \in 1..Len(trace) :
          (trace[m].e = "RETRYING" /\ trace[m].id = tmpl.id) =>
              \E i \in Bodies(tmpl.id) : i < m /\ m < RunEnd(i, tmpl.id)
    /\ \A i \in Bodies(tmpl.id) :
          LET retrying == {m \in (i + 1)..(RunEnd(i, tmpl.id) - 1) :
                             trace[m].e = "RETRYING" /\ trace[m].id = tmpl.id}
          IN IF ~Requeues(i) THEN retrying = {}
             ELSE /\ Cardinality(retrying) = 1
                  /\ \A m \in retrying :
                        /\ m < Len(trace)
                        /\ trace[m].retries = RetriesAtCheck(i)
                        /\ trace[m + 1].id = tmpl.id
                        /\ trace[m + 1].retries = RetriesAtCheck(i) - 1
                        /\ IF tmpl.retry_delay > 0
                           THEN /\ trace[m + 1].e = "SCHEDULED"
                                /\ trace[m + 1].eta = Some(now + tmpl.retry_delay)
                                /\ m + 1 < Len(trace) =>
                                      /\ op.name = "read_schedule"
                                      /\ trace[m + 2].e = "ENQUEUED"
                                      /\ trace[m + 2].eta # trace[m + 1].eta
                           ELSE /\ trace[m + 1].e = "ENQUEUED"
                                /\ trace[m + 1].eta = trace[i].eta

\* Two task values that differ at most in what their on_error task carries.
IsCopy(t1, t2) == [t1 EXCEPT !.on_error = None] = [t2 EXCEPT !.on_error = None]

\* C24, in the broker: a worker's run that is requeued adds one copy of the
\* task, to the schedule (under now + retry_delay) when retry_delay > 0 and
\* to the queue otherwise; a run that is not requeued adds none.
C24_Placed ==
    LET bodies == {i \in 1..Len(trace') : trace'[i].e = "body" /\ trace'[i].id = tmpl.id}
    IN
    (op'.name = "execute" /\ ~immediate /\ Cardinality(bodies) = 1) =>
        LET run == trace'[CHOOSE i \in bodies : TRUE]
            left == IF run.k = "RetryTask" /\ run.retries = 0 THEN 1 ELSE run.retries
            again == run.k \in Failures /\ left > 0
            task == deserialize_task(Head(queue))
            copy == [task EXCEPT !.retries = left - 1,
                                 !.eta = IF tmpl.retry_delay > 0
                                         THEN Some(now + tmpl.retry_delay) ELSE @]
        IN /\ Copies(Waiting', tmpl.id) =
                Copies(Waiting, tmpl.id) - 1 + (IF again THEN 1 ELSE 0)
           /\ (again /\ tmpl.retry_delay > 0) =>
                /\ Copies(queue', tmpl.id) = Copies(queue, tmpl.id) - 1
                /\ \E j \in 1..Len(schedule') :
                      /\ schedule'[j][1] = now + tmpl.retry_delay
                      /\ IsCopy(deserialize_task(schedule'[j][2]), copy)
                      /\ schedule = SubSeq(schedule', 1, j - 1)
                                      \o SubSeq(schedule', j + 1, Len(schedule'))
           /\ (again /\ tmpl.retry_delay = 0) =>
                /\ schedule' = schedule
                /\ queue' # <<>>
                /\ IsCopy(deserialize_task(queue'[Len(queue')]), copy)
           /\ ~again => schedule' = schedule

C24_RequeuedOnce == [](C24_Log) /\ [][C24_Placed]_vars

\* A worker's failed run with retries left and a retry delay has just put
\* the task into the schedule, and nothing on the queue.
C24_Witness ==
    /\ op.name = "execute" /\ ~immediate /\ tmpl.retry_delay > 0
    /\ Cardinality(Bodies(tmpl.id)) = 1
    /\ \E i \in Bodies(tmpl.id) : trace[i].k = "Exception" /\ trace[i].retries = 2
    /\ queue = <<>> /\ Len(schedule) = 1
    /\ trace[Len(trace)].e = "SCHEDULED" /\ trace[Len(trace)].retries = 1

\* C25: every enqueued task is requeued finitely often: from some point on
\* no copy of it is in the queue or the schedule, whatever its body does.
C25_RetryingTerminates == <>[](Copies(Waiting, tmpl.id) = 0)

\* The only way round: apart from a body that raises RetryTask again and
\* again, every task leaves the queue for good.
C25_TerminatesUnlessRetryTask ==
    \/ <>[](Copies(Waiting, tmpl.id) = 0)
    \/ []<>(\E i \in Bodies(tmpl.id) : trace[i].k = "RetryTask")

\* The store holds an Error record under a key.
HoldsError(key) == store[key] # EmptyData /\ deserialize(store[key][1]).t = "Error"

\* C26: once a run of the task has succeeded, an Error record an earlier
\* failed run left under the task's id is gone, whatever the run returned.
C26_NoErrorAfterSuccess ==
    LET i == LastBody(tmpl.id)
    IN (results /\ i > 0 /\ trace[i].k = "return") => ~HoldsError(tmpl.id)

\* What the code does keep: a successful run that writes its result (a
\* value other than None, or store_none) replaces the Error record.
C26_ErrorReplacedByResult ==
    LET i == LastBody(tmpl.id)
    IN (results /\ i > 0 /\ trace[i].k = "return"
        /\ (trace[i].v # PyNone \/ store_none))
       => store[tmpl.id] = Some(serialize(trace[i].v))

\* A get after the retry of a once-failed task that had retries to spare
\* has ended without a requeue, i.e. successfully, raises TaskException.
C26_StaleErrorRaised ==
    /\ tmpl.retries = 2 /\ enq = 1 /\ runs[tmpl.id] = 2 /\ dropped[tmpl.id] = 0
    /\ Copies(Waiting, tmpl.id) = 0
    /\ op.name = "result" /\ ret.k = "TaskException"

\* The copies of the on_error task a step enqueued.
ErrorCopies == {i \in 1..Len(trace) : trace[i].e = "ENQUEUED" /\ trace[i].id = E.id}

\* C27: every enqueued copy of the on_error task e carries e's declared
\* arguments and exactly one exception, that of the failure that caused it.
C27_OneExceptionPerCopy ==
    tmpl.on_error # None =>
        \A i \in ErrorCopies :
            /\ Len(trace[i].args) = Len(E.args) + 1
            /\ SubSeq(trace[i].args, 1, Len(E.args)) = E.args
            /\ \E j \in Bodies(tmpl.id) :
                  j < i /\ trace[j].k = trace[i].args[Len(trace[i].args)]

\* What the code does keep: the copy's arguments start with the declared
\* ones and end with the exception of the run that caused it.
C27_LastIsTheCause ==
    tmpl.on_error # None =>
        \A i \in ErrorCopies :
            /\ Len(trace[i].args) >= Len(E.args) + 1
            /\ SubSeq(trace[i].args, 1, Len(E.args)) = E.args
            /\ \E j \in Bodies(tmpl.id) :
                  /\ j < i /\ trace[j].k = trace[i].args[Len(trace[i].args)]
                  /\ \A m \in (j + 1)..(i - 1) : trace[m].e # "body"

\* The copy a second failure enqueued carries two exceptions: on a worker
\* (the task came back from the queue), and in immediate mode.
C27_TwoExceptionsQueued ==
    /\ ~immediate /\ op.name = "execute" /\ runs[tmpl.id] = 2
    /\ \E i \in ErrorCopies : Len(trace[i].args) = Len(E.args) + 2

C27_TwoExceptionsImmediate ==
    /\ immediate /\ op.name = "enqueue"
    /\ \E i \in ErrorCopies : Len(trace[i].args) = Len(E.args) + 2

\* C28: the delete of a non-peek check removes the record the check read
\* and no other: a record that revoke or revoke_all wrote after the read, in
\* place of the one the worker saw, is still there after the delete.
C28_DeleteStep ==
    \A w \in Workers :
        /\ (chk[w].pc = "restore" /\ chk'[w].pc # "restore"
            /\ Record(revoke_id(tmpl)) # chk[w].rec)
              => store'[revoke_id(tmpl)] = store[revoke_id(tmpl)]
        /\ (chk[w].pc = "restore_all" /\ chk'[w].pc # "restore_all"
            /\ Record(task_key(tmpl.name)) # chk[w].rec)
              => store'[task_key(tmpl.name)] = store[task_key(tmpl.name)]

C28_DeletesOnlyWhatItRead == [][C28_DeleteStep]_vars

\* What the code does keep: the delete removes whatever is under the key.
C28_DeleteRemovesTheKey ==
    [][\A w \in Workers :
          (chk[w].pc = "restore" /\ chk'[w].pc # "restore")
              => store'[revoke_id(tmpl)] = EmptyData]_vars

\* The worker read a one-shot record, revoke was called again, and the
\* worker's delete has removed the record that call wrote: no record is
\* left to skip the task's next attempt.
C28_RevocationLost ==
    /\ chk["w1"].pc = "done" /\ chk["w1"].once /\ chk["w1"].at = 1
    /\ revokes = 2 /\ Record(task_key(tmpl.name)) = None
    /\ op.name = "check" /\ ret = [k |-> "restored", was |-> TRUE]
    /\ Record(revoke_id(tmpl)) = None

====
